---- MODULE Spec2Model ----
(***************************************************************************)
(* Model of the ingestion reconciliation core of the alliance observatory: *)
(* the SQLAlchemy session the upsert routines share, the event locators,   *)
(* the per-kind record upserters, the per-file batch loop of the upload    *)
(* endpoint, screenshot type detection and timestamp resolution, and the   *)
(* background worker.                                                      *)
(*                                                                         *)
(* Datetimes are whole hours since an epoch that falls on a Monday 00:00   *)
(* UTC.  Names are sequences of character codes.  Python None is None.     *)
(***************************************************************************)
EXTENDS Integers, Sequences, FiniteSets, TLC

VARIABLES
    db,        \* committed database: table name -> sequence of rows (row id = index)
    tx,        \* the session's open transaction: db plus everything flushed so far
    new,       \* session.new: objects added but not flushed, per table
    dirty,     \* unflushed attribute changes of persistent objects: table -> (id -> row)
    inactive,  \* the session's transaction was rolled back by a failed flush
    calls,     \* number of routine calls made so far
    hist,      \* observation log: one entry per event located / payload row resolved
    last,      \* outcome of the last call: [op, exc, ret]
    results,   \* upload endpoint: per-file result records of the running batch
    job_queue, \* worker: the jobs put on _job_queue and not yet taken
    stop_event,\* worker: _stop_event is set
    worker,    \* worker: _state.running, and the position of the worker thread
    uploads    \* concurrent upload requests: server process and position of each

wvars == <<job_queue, stop_event, worker, uploads>>

vars == <<db, tx, new, dirty, inactive, calls, hist, last, results, wvars>>

None == 0 - 1

Max(a, b) == IF a >= b THEN a ELSE b
Min(a, b) == IF a <= b THEN a ELSE b
Abs(a) == IF a >= 0 THEN a ELSE 0 - a

\* The element of a singleton set.  {e(x) : x \in {v}} names v once, the way
\* a local variable of the code does.
Only(Sx) == CHOOSE y \in Sx : TRUE

(***************************************************************************)
(* Tables and the unit-of-work session (autoflush=False).                  *)
(***************************************************************************)
TableNames ==
    {"players", "power_history", "furnace_history",
     "bear_events", "bear_scores",
     "foundry_events", "foundry_signups", "foundry_results",
     "ac_events", "ac_signups", "contribution_snapshots",
     "alliance_power_snapshots"}

EmptyTables == [t \in TableNames |-> <<>>]

NoDirty == [t \in TableNames |-> <<>>]

\* SessionLocal(): a fresh session on the committed database.
NewSession(d) ==
    [db |-> d, tx |-> d, new |-> EmptyTables, dirty |-> NoDirty, inactive |-> FALSE]

\* The columns of a row that a unique constraint covers (<<>>: no constraint).
UniqueKey(t, r) ==
    CASE t = "players" -> <<r.alliance_id, r.name>>
      [] t = "power_history" -> <<r.player_id, r.captured_at>>
      [] t = "furnace_history" -> <<r.player_id, r.captured_at>>
      [] t = "foundry_signups" -> <<r.foundry_event_id, r.player_id>>
      [] t = "foundry_results" -> <<r.foundry_event_id, r.player_id>>
      [] t = "ac_signups" -> <<r.ac_event_id, r.player_id>>
      [] t = "contribution_snapshots" ->
            <<r.alliance_id, r.player_id, r.week_start_date, r.snapshot_date>>
      [] OTHER -> <<>>

\* A table satisfies its unique constraint.
UniqueOk(t, rows) ==
    \A i, j \in DOMAIN rows :
        (i < j /\ UniqueKey(t, rows[i]) # <<>>) =>
            UniqueKey(t, rows[i]) # UniqueKey(t, rows[j])

\* The object the session hands out for row id of table t: the identity map
\* keeps unflushed attribute changes over what the transaction holds.
Obj(W, t, id) ==
    IF id \in DOMAIN W.dirty[t] THEN W.dirty[t][id] ELSE W.tx[t][id]

\* Assigning attributes of a persistent object (no flush).
SetObj(W, t, id, r) ==
    IF r = Obj(W, t, id) THEN W
    ELSE [W EXCEPT !.dirty[t] = (id :> r) @@ @]

\* session.add(obj): pending until the next flush.
SessionAdd(W, t, r) == [W EXCEPT !.new[t] = Append(@, r)]

\* What a flush writes: dirty attributes as UPDATEs, pending objects as INSERTs.
Flushed(W) ==
    [t \in TableNames |->
        [i \in DOMAIN W.tx[t] |-> Obj(W, t, i)] \o W.new[t]]

\* The state a failed flush leaves: the transaction is rolled back, pending
\* objects are expunged, and the session stays unusable until rollback().
AfterFailedFlush(W) ==
    [db |-> W.db, tx |-> W.db, new |-> EmptyTables, dirty |-> NoDirty,
     inactive |-> TRUE]

\* A row satisfies the NOT NULL columns a payload can leave empty.
NotNullOk(t, r) ==
    CASE t = "furnace_history" -> r.furnace_level # None
      [] t = "alliance_power_snapshots" -> r.rank # None
      [] OTHER -> TRUE

\* session.flush(): a constraint violation rolls the whole transaction back.
Flush(W) ==
    IF W.inactive THEN [w |-> W, exc |-> "PendingRollbackError"]
    ELSE IF \A t \in TableNames :
                /\ UniqueOk(t, Flushed(W)[t])
                /\ \A i \in DOMAIN W.new[t] : NotNullOk(t, W.new[t][i])
         THEN [w |-> [W EXCEPT !.tx = Flushed(W), !.new = EmptyTables,
                                !.dirty = NoDirty],
               exc |-> "none"]
         ELSE [w |-> AfterFailedFlush(W), exc |-> "IntegrityError"]

\* session.commit(): flush, then make the transaction durable.
Commit(W) ==
    LET f == Flush(W) IN
    IF f.exc # "none" THEN f
    ELSE [w |-> [f.w EXCEPT !.db = f.w.tx], exc |-> "none"]

\* session.close() at the end of a request: whatever was not committed is lost.
Close(W) == NewSession(W.db)

\* Ids of the rows of table t the transaction holds that satisfy P.
Select(W, t, P(_)) == {i \in DOMAIN W.tx[t] : P(W.tx[t][i])}

(***************************************************************************)
(* Names: the tag strip every upserter inlines, and the roster lookups.    *)
(***************************************************************************)
IsSpace(c) == c \in {9, 10, 11, 12, 13, 32}

RECURSIVE LStrip(_)
LStrip(s) ==
    IF s # <<>> /\ IsSpace(Head(s)) THEN LStrip(Tail(s)) ELSE s

RECURSIVE RStrip(_)
RStrip(s) ==
    IF s # <<>> /\ IsSpace(s[Len(s)]) THEN RStrip(SubSeq(s, 1, Len(s) - 1)) ELSE s

\* str.strip()
Strip(s) == RStrip(LStrip(s))

\* A payload name that is not a JSON string (a number, a list): str methods
\* on it raise AttributeError.
NotAString == <<None>>

\* Python None in a payload field that otherwise holds a string.
NoneStr == <<0 - 2>>

\* if name.startswith("[") and "]" in name: name = name.split("]", 1)[1].strip()
StripTag(name) ==
    IF name # <<>> /\ name[1] = 91 /\ \E i \in DOMAIN name : name[i] = 93
    THEN LET k == CHOOSE i \in DOMAIN name :
                     name[i] = 93 /\ \A j \in 1..(i - 1) : name[j] # 93
         IN Strip(SubSeq(name, k + 1, Len(name)))
    ELSE name

\* select(Player).where(alliance_id == a, name == n).scalar_one_or_none()
ExactPlayer(W, a, n) ==
    LET ids == Select(W, "players", LAMBDA r : r.alliance_id = a /\ r.name = n)
    IN IF ids = {} THEN None ELSE CHOOSE i \in ids : TRUE

(***************************************************************************)
(* Fuzzy roster lookup: difflib.get_close_matches over the alliance's      *)
(* player names.                                                           *)
(***************************************************************************)
FUZZY_MATCH_THRESHOLD == 85

\* SequenceMatcher.find_longest_match over whole a and b: the common blocks
\* <<i, j, k>> with a[i..i+k-1] = b[j..j+k-1].
CommonBlocks(a, b) ==
    {x \in (DOMAIN a) \X (DOMAIN b) \X (1..Min(Len(a), Len(b))) :
        /\ x[1] + x[3] - 1 <= Len(a)
        /\ x[2] + x[3] - 1 <= Len(b)
        /\ SubSeq(a, x[1], x[1] + x[3] - 1) = SubSeq(b, x[2], x[2] + x[3] - 1)}

\* The block find_longest_match returns: longest, then earliest in a, then
\* earliest in b.
LongestMatch(a, b) ==
    CHOOSE x \in CommonBlocks(a, b) : \A y \in CommonBlocks(a, b) :
        \/ x[3] > y[3]
        \/ x[3] = y[3] /\ x[1] < y[1]
        \/ x[3] = y[3] /\ x[1] = y[1] /\ x[2] <= y[2]

\* Sum of the sizes of SequenceMatcher.get_matching_blocks(): the longest
\* block, then recursively the pieces to its left and to its right.
RECURSIVE MatchingSize(_, _)
MatchingSize(a, b) ==
    IF CommonBlocks(a, b) = {} THEN 0
    ELSE LET x == LongestMatch(a, b)
         IN x[3]
            + MatchingSize(SubSeq(a, 1, x[1] - 1), SubSeq(b, 1, x[2] - 1))
            + MatchingSize(SubSeq(a, x[1] + x[3], Len(a)),
                           SubSeq(b, x[2] + x[3], Len(b)))

\* SequenceMatcher(None, a, b).ratio() as the fraction <<numerator, denominator>>.
Ratio(a, b) ==
    IF Len(a) + Len(b) = 0 THEN <<1, 1>>
    ELSE <<2 * MatchingSize(a, b), Len(a) + Len(b)>>

\* ratio >= cutoff, the cutoff given in hundredths.
RatioAtLeast(r, cutoff) == r[1] * 100 >= cutoff * r[2]

\* Python's str ordering: lexicographic by code point.
RECURSIVE StrLess(_, _)
StrLess(s, t) ==
    IF t = <<>> THEN FALSE
    ELSE IF s = <<>> THEN TRUE
    ELSE IF Head(s) # Head(t) THEN Head(s) < Head(t)
    ELSE StrLess(Tail(s), Tail(t))

\* Tuple ordering of the (score, name) pairs heapq.nlargest ranks.
ScoredLess(r1, n1, r2, n2) ==
    \/ r1[1] * r2[2] < r2[1] * r1[2]
    \/ r1[1] * r2[2] = r2[1] * r1[2] /\ StrLess(n1, n2)

\* fuzzy_match_player: the roster player whose name get_close_matches ranks
\* first against the payload name, or None.
FuzzyMatchPlayer(W, alliance_id, player_name, threshold) ==
    LET all_players == Select(W, "players", LAMBDA r : r.alliance_id = alliance_id)
        nm(i) == Obj(W, "players", i).name
        close == {i \in all_players :
                     RatioAtLeast(Ratio(nm(i), player_name), threshold)}
    IN  IF close = {} THEN None
        ELSE CHOOSE i \in close : \A j \in close :
                 j = i \/ ScoredLess(Ratio(nm(j), player_name), nm(j),
                                     Ratio(nm(i), player_name), nm(i))

\* Faulty variant: the fuzzy fallback searches every alliance's roster.
FindPlayerWithFuzzyFallback_AnyAlliance(W, alliance_id, player_name) ==
    IF ExactPlayer(W, alliance_id, player_name) # None
    THEN ExactPlayer(W, alliance_id, player_name)
    ELSE LET close == {i \in DOMAIN W.tx["players"] :
                 RatioAtLeast(Ratio(W.tx["players"][i].name, player_name),
                              FUZZY_MATCH_THRESHOLD)}
         IN IF close = {} THEN None ELSE CHOOSE i \in close : TRUE

\* find_player_with_fuzzy_fallback: exact match first, then fuzzy.
FindPlayerWithFuzzyFallback(W, alliance_id, player_name) ==
    Only({IF player # None THEN player
          ELSE FuzzyMatchPlayer(W, alliance_id, player_name, FUZZY_MATCH_THRESHOLD) :
          player \in {ExactPlayer(W, alliance_id, player_name)}})

(***************************************************************************)
(* Bear events: time-window event locator and improve-on-write scores.     *)
(***************************************************************************)
EVENT_GROUPING_WINDOW_HOURS == 24

\* The rows the window query returns first under ORDER BY started_at DESC
\* (the database is free to return any of several equal started_at).
BearFirst(W, alliance_id, trap_id, started_at) ==
    LET m == Select(W, "bear_events", LAMBDA r :
                 /\ r.alliance_id = alliance_id
                 /\ r.trap_id = trap_id
                 /\ r.started_at >= started_at - EVENT_GROUPING_WINDOW_HOURS
                 /\ r.started_at <= started_at + EVENT_GROUPING_WINDOW_HOURS)
    IN {i \in m : \A j \in m :
            W.tx["bear_events"][j].started_at <= W.tx["bear_events"][i].started_at}

\* The values session.execute(stmt).first() can produce: a row id, or None.
BearPicks(W, alliance_id, trap_id, started_at) ==
    IF W.inactive \/ BearFirst(W, alliance_id, trap_id, started_at) = {}
    THEN {None}
    ELSE BearFirst(W, alliance_id, trap_id, started_at)

\* Faulty variant: a found event keeps its stored started_at.
FindOrCreateBearEvent_NoPullBack(W, alliance_id, trap_id, started_at, ended_at, rally_count, total_damage, pick, src) ==
    IF W.inactive THEN [w |-> W, exc |-> "PendingRollbackError", ret |-> None]
    ELSE IF pick # None
    THEN LET e0 == Obj(W, "bear_events", pick)
             e2 == IF ended_at # None THEN [e0 EXCEPT !.ended_at = ended_at] ELSE e0
             e3 == IF rally_count # None
                   THEN [e2 EXCEPT !.rally_count = rally_count] ELSE e2
             e4 == IF total_damage # None
                   THEN [e3 EXCEPT !.total_damage = total_damage] ELSE e3
         IN [w |-> SetObj(W, "bear_events", pick, e4), exc |-> "none", ret |-> pick]
    ELSE LET f == Flush(SessionAdd(W, "bear_events",
                      [alliance_id |-> alliance_id, trap_id |-> trap_id,
                       started_at |-> started_at, ended_at |-> ended_at,
                       rally_count |-> rally_count, total_damage |-> total_damage,
                       src |-> src]))
         IN [w |-> f.w, exc |-> f.exc,
             ret |-> IF f.exc = "none" THEN Len(f.w.tx["bear_events"]) ELSE None]

\* find_or_create_bear_event; pick is what .first() returned.
FindOrCreateBearEvent(W, alliance_id, trap_id, started_at, ended_at, rally_count, total_damage, pick, src) ==
    IF W.inactive THEN [w |-> W, exc |-> "PendingRollbackError", ret |-> None]
    ELSE IF pick # None
    THEN LET e0 == Obj(W, "bear_events", pick)
             e1 == IF started_at < e0.started_at
                   THEN [e0 EXCEPT !.started_at = started_at] ELSE e0
             e2 == IF ended_at # None THEN [e1 EXCEPT !.ended_at = ended_at] ELSE e1
             e3 == IF rally_count # None
                   THEN [e2 EXCEPT !.rally_count = rally_count] ELSE e2
             e4 == IF total_damage # None
                   THEN [e3 EXCEPT !.total_damage = total_damage] ELSE e3
         IN [w |-> SetObj(W, "bear_events", pick, e4), exc |-> "none", ret |-> pick]
    ELSE LET f == Flush(SessionAdd(W, "bear_events",
                      [alliance_id |-> alliance_id, trap_id |-> trap_id,
                       started_at |-> started_at, ended_at |-> ended_at,
                       rally_count |-> rally_count, total_damage |-> total_damage,
                       src |-> src]))
         IN [w |-> f.w, exc |-> f.exc,
             ret |-> IF f.exc = "none" THEN Len(f.w.tx["bear_events"]) ELSE None]

\* add_bear_score
AddBearScore(W, bear_event_id, player_id, score, rank, recorded_at, src) ==
    SessionAdd(W, "bear_scores",
        [bear_event_id |-> bear_event_id, player_id |-> player_id,
         score |-> score, rank |-> rank, recorded_at |-> recorded_at, src |-> src])

NoCounts == [added |-> 0, updated |-> 0, skipped |-> 0]

\* Faulty variant: an update stores the new score instead of the larger one.
BearScoreRow_Overwrite(W, alliance_id, ev, row, recorded_at, src, c) ==
    IF row.name = <<>> THEN [w |-> W, exc |-> "none", ret |-> c]
    ELSE IF row.name = NotAString THEN [w |-> W, exc |-> "AttributeError", ret |-> c]
    ELSE
    LET player == ExactPlayer(W, alliance_id, StripTag(row.name))
        existing == Select(W, "bear_scores", LAMBDA r :
                        r.bear_event_id = ev /\ r.player_id = player)
        id == CHOOSE i \in existing : TRUE
        s == Obj(W, "bear_scores", id)
    IN  IF player = None THEN [w |-> W, exc |-> "none", ret |-> c]
        ELSE IF existing = {}
        THEN [w |-> AddBearScore(W, ev, player, row.damage_points, row.rank,
                                 recorded_at, src),
              exc |-> "none", ret |-> [c EXCEPT !.added = @ + 1]]
        ELSE IF row.damage_points > s.score
                \/ (row.rank # None /\ row.rank # 0 /\ row.rank # s.rank)
        THEN [w |-> SetObj(W, "bear_scores", id,
                        [s EXCEPT !.score = row.damage_points,
                                  !.rank = IF row.rank # None THEN row.rank ELSE s.rank,
                                  !.recorded_at = recorded_at]),
              exc |-> "none", ret |-> [c EXCEPT !.updated = @ + 1]]
        ELSE [w |-> W, exc |-> "none", ret |-> [c EXCEPT !.skipped = @ + 1]]

\* One pass of the for loop of save_bear_event_ocr over payload row `row`;
\* c holds the counts so far.
BearScoreRow(W, alliance_id, ev, row, recorded_at, src, c) ==
    IF row.name = <<>> THEN [w |-> W, exc |-> "none", ret |-> c]
    ELSE IF row.name = NotAString THEN [w |-> W, exc |-> "AttributeError", ret |-> c]
    ELSE
    LET player == ExactPlayer(W, alliance_id, StripTag(row.name))
        existing == Select(W, "bear_scores", LAMBDA r :
                        r.bear_event_id = ev /\ r.player_id = player)
        id == CHOOSE i \in existing : TRUE
        s == Obj(W, "bear_scores", id)
    IN  IF player = None THEN [w |-> W, exc |-> "none", ret |-> c]
        ELSE IF Cardinality(existing) > 1
        THEN [w |-> W, exc |-> "MultipleResultsFound", ret |-> c]
        ELSE IF existing = {}
        THEN [w |-> AddBearScore(W, ev, player, row.damage_points, row.rank,
                                 recorded_at, src),
              exc |-> "none", ret |-> [c EXCEPT !.added = @ + 1]]
        ELSE IF row.damage_points > s.score
                \/ (row.rank # None /\ row.rank # 0 /\ row.rank # s.rank)
        THEN [w |-> SetObj(W, "bear_scores", id,
                        [s EXCEPT !.score = Max(row.damage_points, s.score),
                                  !.rank = IF row.rank # None THEN row.rank ELSE s.rank,
                                  !.recorded_at = recorded_at]),
              exc |-> "none", ret |-> [c EXCEPT !.updated = @ + 1]]
        ELSE [w |-> W, exc |-> "none", ret |-> [c EXCEPT !.skipped = @ + 1]]

\* The for loop of save_bear_event_ocr from payload row k on: an exception
\* leaves the loop with the session as the rows before it left it.
RECURSIVE BearScoreLoop(_, _, _, _, _, _, _, _)
BearScoreLoop(W, alliance_id, ev, rows, k, recorded_at, src, c) ==
    IF k > Len(rows) THEN [w |-> W, exc |-> "none", ret |-> c]
    ELSE Only({IF st.exc # "none" THEN st
               ELSE BearScoreLoop(st.w, alliance_id, ev, rows, k + 1, recorded_at,
                                  src, st.ret) :
               st \in {BearScoreRow(W, alliance_id, ev, rows[k], recorded_at, src, c)}})

\* What a save routine hands back once its event is located (fe), its rows
\* are looped over (lp) and session.commit() has run (cm).
Saved(fe, lp, cm, ret) ==
    IF fe.exc # "none" THEN [w |-> fe.w, exc |-> fe.exc, ret |-> None]
    ELSE IF lp.exc # "none" THEN [w |-> lp.w, exc |-> lp.exc, ret |-> None]
    ELSE IF cm.exc # "none" THEN [w |-> cm.w, exc |-> cm.exc, ret |-> None]
    ELSE [w |-> cm.w, exc |-> "none", ret |-> ret]

\* save_bear_event_ocr
SaveBearEventOcr(W, alliance_id, trap_id, started_at, players_data, recorded_at, pick, src) ==
    Only({Only({Only({
        Saved(fe, lp, cm,
              [event_id |-> fe.ret, scores_added |-> lp.ret.added,
               scores_updated |-> lp.ret.updated,
               scores_skipped |-> lp.ret.skipped]) :
        cm \in {IF lp.exc = "none" THEN Commit(lp.w) ELSE lp}}) :
        lp \in {IF fe.exc = "none"
                THEN BearScoreLoop(fe.w, alliance_id, fe.ret, players_data, 1,
                                   recorded_at, src, NoCounts)
                ELSE fe}}) :
        fe \in {FindOrCreateBearEvent(W, alliance_id, trap_id, started_at,
                                      None, None, None, pick, src)}})

\* The persistence step of _process_bear_overview: locate the event, commit.
SaveBearOverview(W, alliance_id, trap_id, timestamp, rally_count, total_damage, pick, src) ==
    Only({Only({Saved(fe, fe, cm, 1) :
        cm \in {IF fe.exc = "none" THEN Commit(fe.w) ELSE fe}}) :
        fe \in {FindOrCreateBearEvent(W, alliance_id, trap_id, timestamp, None,
                                      rally_count, total_damage, pick, src)}})

(***************************************************************************)
(* Foundry events: exact-match event locator and first-write-wins rows.    *)
(***************************************************************************)
\* find_or_create_foundry_event
FindOrCreateFoundryEvent(W, alliance_id, legion_number, event_date, total_troop_power, max_participants, actual_participants, src) ==
    LET ids == Select(W, "foundry_events", LAMBDA r :
                   /\ r.alliance_id = alliance_id
                   /\ r.legion_number = legion_number
                   /\ r.event_date = event_date)
    IN  IF W.inactive THEN [w |-> W, exc |-> "PendingRollbackError", ret |-> None]
        ELSE IF Cardinality(ids) > 1
        THEN [w |-> W, exc |-> "MultipleResultsFound", ret |-> None]
        ELSE IF ids = {}
        THEN LET f == Flush(SessionAdd(W, "foundry_events",
                          [alliance_id |-> alliance_id, legion_number |-> legion_number,
                           event_date |-> event_date,
                           total_troop_power |-> total_troop_power,
                           max_participants |-> max_participants,
                           actual_participants |-> actual_participants,
                           src |-> src]))
             IN [w |-> f.w, exc |-> f.exc,
                 ret |-> IF f.exc = "none" THEN Len(f.w.tx["foundry_events"]) ELSE None]
        ELSE LET id == CHOOSE i \in ids : TRUE
                 e0 == Obj(W, "foundry_events", id)
                 e1 == IF total_troop_power # None
                       THEN [e0 EXCEPT !.total_troop_power = total_troop_power] ELSE e0
                 e2 == IF max_participants # None
                       THEN [e1 EXCEPT !.max_participants = max_participants] ELSE e1
                 e3 == IF actual_participants # None
                       THEN [e2 EXCEPT !.actual_participants = actual_participants]
                       ELSE e2
             IN [w |-> SetObj(W, "foundry_events", id, e3), exc |-> "none", ret |-> id]

\* Faulty variant: a signup that already exists takes the new observation's values.
AddFoundrySignup_Overwrite(W, foundry_event_id, player_id, foundry_power, voted, recorded_at, src) ==
    LET existing == Select(W, "foundry_signups", LAMBDA r :
                        r.foundry_event_id = foundry_event_id /\ r.player_id = player_id)
    IN  IF existing # {}
        THEN LET id == CHOOSE i \in existing : TRUE
             IN [w |-> SetObj(W, "foundry_signups", id,
                         [Obj(W, "foundry_signups", id) EXCEPT
                             !.foundry_power = foundry_power, !.voted = voted,
                             !.recorded_at = recorded_at]),
                 exc |-> "none", ret |-> None]
        ELSE [w |-> SessionAdd(W, "foundry_signups",
                        [foundry_event_id |-> foundry_event_id, player_id |-> player_id,
                         foundry_power |-> foundry_power, voted |-> voted,
                         recorded_at |-> recorded_at, src |-> src]),
              exc |-> "none", ret |-> 1]

\* add_foundry_signup: ret is None for a skip.
AddFoundrySignup(W, foundry_event_id, player_id, foundry_power, voted, recorded_at, src) ==
    LET existing == Select(W, "foundry_signups", LAMBDA r :
                        r.foundry_event_id = foundry_event_id /\ r.player_id = player_id)
    IN  IF Cardinality(existing) > 1
        THEN [w |-> W, exc |-> "MultipleResultsFound", ret |-> None]
        ELSE IF existing # {} THEN [w |-> W, exc |-> "none", ret |-> None]
        ELSE [w |-> SessionAdd(W, "foundry_signups",
                        [foundry_event_id |-> foundry_event_id, player_id |-> player_id,
                         foundry_power |-> foundry_power, voted |-> voted,
                         recorded_at |-> recorded_at, src |-> src]),
              exc |-> "none", ret |-> 1]

\* One pass of the for loop of save_foundry_signup_ocr over payload row
\* `row`; n counts the signups added so far.
FoundrySignupRow(W, alliance_id, ev, row, recorded_at, src, n) ==
    IF row.name = <<>> \/ row.status # "join" THEN [w |-> W, exc |-> "none", ret |-> n]
    ELSE IF row.name = NotAString THEN [w |-> W, exc |-> "AttributeError", ret |-> n]
    ELSE Only({
        IF player = None THEN [w |-> W, exc |-> "none", ret |-> n]
        ELSE Only({[w |-> a.w, exc |-> a.exc,
                    ret |-> IF a.exc = "none" /\ a.ret # None THEN n + 1 ELSE n] :
                   a \in {AddFoundrySignup(W, ev, player, row.foundry_power, row.voted,
                                           recorded_at, src)}}) :
        player \in {FindPlayerWithFuzzyFallback(W, alliance_id, StripTag(row.name))}})

\* The for loop of save_foundry_signup_ocr from payload row k on.
RECURSIVE FoundrySignupLoop(_, _, _, _, _, _, _, _)
FoundrySignupLoop(W, alliance_id, ev, rows, k, recorded_at, src, n) ==
    IF k > Len(rows) THEN [w |-> W, exc |-> "none", ret |-> n]
    ELSE Only({IF st.exc # "none" THEN st
               ELSE FoundrySignupLoop(st.w, alliance_id, ev, rows, k + 1, recorded_at,
                                      src, st.ret) :
               st \in {FoundrySignupRow(W, alliance_id, ev, rows[k], recorded_at,
                                        src, n)}})

\* save_foundry_signup_ocr
SaveFoundrySignupOcr(W, alliance_id, legion_number, event_date, signup_data, recorded_at, src) ==
    Only({Only({Only({
        Saved(fe, lp, cm, [event_id |-> fe.ret, signups |-> lp.ret]) :
        cm \in {IF lp.exc = "none" THEN Commit(lp.w) ELSE lp}}) :
        lp \in {IF fe.exc = "none"
                THEN FoundrySignupLoop(fe.w, alliance_id, fe.ret, signup_data.players,
                                       1, recorded_at, src, 0)
                ELSE fe}}) :
        fe \in {FindOrCreateFoundryEvent(W, alliance_id, legion_number, event_date,
                    signup_data.total_troop_power, signup_data.max_participants,
                    signup_data.actual_participants, src)}})

\* add_foundry_result: ret is None for a skip.
AddFoundryResult(W, foundry_event_id, player_id, score, rank, recorded_at, src) ==
    LET existing == Select(W, "foundry_results", LAMBDA r :
                        r.foundry_event_id = foundry_event_id /\ r.player_id = player_id)
    IN  IF Cardinality(existing) > 1
        THEN [w |-> W, exc |-> "MultipleResultsFound", ret |-> None]
        ELSE IF existing # {} THEN [w |-> W, exc |-> "none", ret |-> None]
        ELSE [w |-> SessionAdd(W, "foundry_results",
                        [foundry_event_id |-> foundry_event_id, player_id |-> player_id,
                         score |-> score, rank |-> rank,
                         recorded_at |-> recorded_at, src |-> src]),
              exc |-> "none", ret |-> 1]

\* One pass of the for loop of save_foundry_result_ocr over payload row `row`.
FoundryResultRow(W, alliance_id, ev, row, recorded_at, src, n) ==
    IF row.name = <<>> THEN [w |-> W, exc |-> "none", ret |-> n]
    ELSE IF row.name = NotAString THEN [w |-> W, exc |-> "AttributeError", ret |-> n]
    ELSE Only({
        IF player = None THEN [w |-> W, exc |-> "none", ret |-> n]
        ELSE Only({[w |-> a.w, exc |-> a.exc,
                    ret |-> IF a.exc = "none" /\ a.ret # None THEN n + 1 ELSE n] :
                   a \in {AddFoundryResult(W, ev, player, row.score, row.rank,
                                           recorded_at, src)}}) :
        player \in {FindPlayerWithFuzzyFallback(W, alliance_id, StripTag(row.name))}})

\* The for loop of save_foundry_result_ocr from payload row k on.
RECURSIVE FoundryResultLoop(_, _, _, _, _, _, _, _)
FoundryResultLoop(W, alliance_id, ev, rows, k, recorded_at, src, n) ==
    IF k > Len(rows) THEN [w |-> W, exc |-> "none", ret |-> n]
    ELSE Only({IF st.exc # "none" THEN st
               ELSE FoundryResultLoop(st.w, alliance_id, ev, rows, k + 1, recorded_at,
                                      src, st.ret) :
               st \in {FoundryResultRow(W, alliance_id, ev, rows[k], recorded_at,
                                        src, n)}})

\* The event lookup that opens save_foundry_result_ocr: a missing event is
\* created by find_or_create_foundry_event without header stats.
FoundryEventForResults(W, alliance_id, legion_number, event_date, src) ==
    LET ids == Select(W, "foundry_events", LAMBDA r :
                   /\ r.alliance_id = alliance_id
                   /\ r.legion_number = legion_number
                   /\ r.event_date = event_date)
    IN  IF W.inactive THEN [w |-> W, exc |-> "PendingRollbackError", ret |-> None]
        ELSE IF Cardinality(ids) > 1
        THEN [w |-> W, exc |-> "MultipleResultsFound", ret |-> None]
        ELSE IF ids # {}
        THEN [w |-> W, exc |-> "none", ret |-> CHOOSE i \in ids : TRUE]
        ELSE FindOrCreateFoundryEvent(W, alliance_id, legion_number, event_date,
                                      None, None, None, src)

\* save_foundry_result_ocr
SaveFoundryResultOcr(W, alliance_id, legion_number, event_date, players_data, recorded_at, src) ==
    Only({Only({Only({
        Saved(fe, lp, cm, [event_id |-> fe.ret, results |-> lp.ret]) :
        cm \in {IF lp.exc = "none" THEN Commit(lp.w) ELSE lp}}) :
        lp \in {IF fe.exc = "none"
                THEN FoundryResultLoop(fe.w, alliance_id, fe.ret, players_data, 1,
                                       recorded_at, src, 0)
                ELSE fe}}) :
        fe \in {FoundryEventForResults(W, alliance_id, legion_number, event_date, src)}})

(***************************************************************************)
(* Alliance coordination signups: improve-on-write on ac_power.            *)
(***************************************************************************)

\* Faulty variant: a found event takes the supplied statistics, None included.
FindOrCreateAcEvent_Overwrite(W, alliance_id, week_start_date, total_registered, total_power, src) ==
    LET ids == Select(W, "ac_events", LAMBDA r :
                   r.alliance_id = alliance_id /\ r.week_start_date = week_start_date)
    IN  IF W.inactive THEN [w |-> W, exc |-> "PendingRollbackError", ret |-> None]
        ELSE IF Cardinality(ids) > 1
        THEN [w |-> W, exc |-> "MultipleResultsFound", ret |-> None]
        ELSE IF ids = {}
        THEN LET f == Flush(SessionAdd(W, "ac_events",
                          [alliance_id |-> alliance_id,
                           week_start_date |-> week_start_date,
                           total_registered |-> total_registered,
                           total_power |-> total_power, src |-> src]))
             IN [w |-> f.w, exc |-> f.exc,
                 ret |-> IF f.exc = "none" THEN Len(f.w.tx["ac_events"]) ELSE None]
        ELSE LET id == CHOOSE i \in ids : TRUE
                 e0 == Obj(W, "ac_events", id)
             IN [w |-> SetObj(W, "ac_events", id,
                              [e0 EXCEPT !.total_registered = total_registered,
                                         !.total_power = total_power]),
                 exc |-> "none", ret |-> id]

\* find_or_create_ac_event
FindOrCreateAcEvent(W, alliance_id, week_start_date, total_registered, total_power, src) ==
    LET ids == Select(W, "ac_events", LAMBDA r :
                   r.alliance_id = alliance_id /\ r.week_start_date = week_start_date)
    IN  IF W.inactive THEN [w |-> W, exc |-> "PendingRollbackError", ret |-> None]
        ELSE IF Cardinality(ids) > 1
        THEN [w |-> W, exc |-> "MultipleResultsFound", ret |-> None]
        ELSE IF ids = {}
        THEN LET f == Flush(SessionAdd(W, "ac_events",
                          [alliance_id |-> alliance_id,
                           week_start_date |-> week_start_date,
                           total_registered |-> total_registered,
                           total_power |-> total_power, src |-> src]))
             IN [w |-> f.w, exc |-> f.exc,
                 ret |-> IF f.exc = "none" THEN Len(f.w.tx["ac_events"]) ELSE None]
        ELSE LET id == CHOOSE i \in ids : TRUE
                 e0 == Obj(W, "ac_events", id)
                 e1 == IF total_registered # None
                       THEN [e0 EXCEPT !.total_registered = total_registered] ELSE e0
                 e2 == IF total_power # None
                       THEN [e1 EXCEPT !.total_power = total_power] ELSE e1
             IN [w |-> SetObj(W, "ac_events", id, e2), exc |-> "none", ret |-> id]

\* add_ac_signup
AddAcSignup(W, ac_event_id, player_id, ac_power, recorded_at, src) ==
    SessionAdd(W, "ac_signups",
        [ac_event_id |-> ac_event_id, player_id |-> player_id,
         ac_power |-> ac_power, recorded_at |-> recorded_at, src |-> src])

\* Faulty variant: an observation that is not higher still refreshes recorded_at.
AcSignupRow_AlwaysStamp(W, alliance_id, ev, row, recorded_at, src, n) ==
    IF row.name = <<>> THEN [w |-> W, exc |-> "none", ret |-> n]
    ELSE IF row.name = NotAString THEN [w |-> W, exc |-> "AttributeError", ret |-> n]
    ELSE
    LET player == ExactPlayer(W, alliance_id, StripTag(row.name))
        existing == Select(W, "ac_signups", LAMBDA r :
                        r.ac_event_id = ev /\ r.player_id = player)
        id == CHOOSE i \in existing : TRUE
        s == Obj(W, "ac_signups", id)
    IN  IF player = None THEN [w |-> W, exc |-> "none", ret |-> n]
        ELSE IF existing = {}
        THEN [w |-> AddAcSignup(W, ev, player, row.ac_power, recorded_at, src),
              exc |-> "none", ret |-> n + 1]
        ELSE [w |-> SetObj(W, "ac_signups", id,
                        [s EXCEPT !.ac_power = Max(row.ac_power, s.ac_power),
                                  !.recorded_at = recorded_at]),
              exc |-> "none", ret |-> n]

\* One pass of the for loop of save_ac_signup_ocr over payload row `row`;
\* n counts the signups added so far.
AcSignupRow(W, alliance_id, ev, row, recorded_at, src, n) ==
    IF row.name = <<>> THEN [w |-> W, exc |-> "none", ret |-> n]
    ELSE IF row.name = NotAString THEN [w |-> W, exc |-> "AttributeError", ret |-> n]
    ELSE
    LET player == ExactPlayer(W, alliance_id, StripTag(row.name))
        existing == Select(W, "ac_signups", LAMBDA r :
                        r.ac_event_id = ev /\ r.player_id = player)
        id == CHOOSE i \in existing : TRUE
        s == Obj(W, "ac_signups", id)
    IN  IF player = None THEN [w |-> W, exc |-> "none", ret |-> n]
        ELSE IF Cardinality(existing) > 1
        THEN [w |-> W, exc |-> "MultipleResultsFound", ret |-> n]
        ELSE IF existing = {}
        THEN [w |-> AddAcSignup(W, ev, player, row.ac_power, recorded_at, src),
              exc |-> "none", ret |-> n + 1]
        ELSE IF row.ac_power > s.ac_power
        THEN [w |-> SetObj(W, "ac_signups", id,
                        [s EXCEPT !.ac_power = row.ac_power,
                                  !.recorded_at = recorded_at]),
              exc |-> "none", ret |-> n]
        ELSE [w |-> W, exc |-> "none", ret |-> n]

\* The for loop of save_ac_signup_ocr from payload row k on.
RECURSIVE AcSignupLoop(_, _, _, _, _, _, _, _)
AcSignupLoop(W, alliance_id, ev, rows, k, recorded_at, src, n) ==
    IF k > Len(rows) THEN [w |-> W, exc |-> "none", ret |-> n]
    ELSE Only({IF st.exc # "none" THEN st
               ELSE AcSignupLoop(st.w, alliance_id, ev, rows, k + 1, recorded_at,
                                 src, st.ret) :
               st \in {AcSignupRow(W, alliance_id, ev, rows[k], recorded_at, src, n)}})

\* save_ac_signup_ocr
SaveAcSignupOcr(W, alliance_id, week_start_date, signup_data, recorded_at, src) ==
    Only({Only({Only({
        Saved(fe, lp, cm, [event_id |-> fe.ret, signups |-> lp.ret]) :
        cm \in {IF lp.exc = "none" THEN Commit(lp.w) ELSE lp}}) :
        lp \in {IF fe.exc = "none"
                THEN AcSignupLoop(fe.w, alliance_id, fe.ret, signup_data.players, 1,
                                  recorded_at, src, 0)
                ELSE fe}}) :
        fe \in {FindOrCreateAcEvent(W, alliance_id, week_start_date,
                    signup_data.total_registered, signup_data.total_power, src)}})

(***************************************************************************)
(* Contribution snapshots: keyed by dates normalised to midnight.          *)
(***************************************************************************)
\* datetime.replace(hour=0, minute=0, second=0, microsecond=0)
Midnight(t) == t - (t % 24)

\* One pass of the for loop of save_contribution_snapshot_ocr over payload
\* row `row`, the two dates already normalised; n counts the snapshots added.
ContributionRow(W, alliance_id, week_start_date, snapshot_date, row, recorded_at, src, n) ==
    IF row.name = <<>> THEN [w |-> W, exc |-> "none", ret |-> n]
    ELSE IF row.name = NotAString THEN [w |-> W, exc |-> "AttributeError", ret |-> n]
    ELSE IF W.inactive THEN [w |-> W, exc |-> "PendingRollbackError", ret |-> n]
    ELSE
    LET player == ExactPlayer(W, alliance_id, StripTag(row.name))
        existing == Select(W, "contribution_snapshots", LAMBDA r :
                        /\ r.alliance_id = alliance_id
                        /\ r.player_id = player
                        /\ r.week_start_date = week_start_date
                        /\ r.snapshot_date = snapshot_date)
    IN  IF player = None THEN [w |-> W, exc |-> "none", ret |-> n]
        ELSE IF Cardinality(existing) > 1
        THEN [w |-> W, exc |-> "MultipleResultsFound", ret |-> n]
        ELSE IF existing # {} THEN [w |-> W, exc |-> "none", ret |-> n]
        ELSE [w |-> SessionAdd(W, "contribution_snapshots",
                        [alliance_id |-> alliance_id, player_id |-> player,
                         week_start_date |-> week_start_date,
                         snapshot_date |-> snapshot_date,
                         contribution_amount |-> row.contribution,
                         rank |-> row.rank, recorded_at |-> recorded_at,
                         src |-> src]),
              exc |-> "none", ret |-> n + 1]

\* The for loop of save_contribution_snapshot_ocr from payload row k on.
RECURSIVE ContributionLoop(_, _, _, _, _, _, _, _, _)
ContributionLoop(W, alliance_id, week_start_date, snapshot_date, rows, k, recorded_at, src, n) ==
    IF k > Len(rows) THEN [w |-> W, exc |-> "none", ret |-> n]
    ELSE Only({IF st.exc # "none" THEN st
               ELSE ContributionLoop(st.w, alliance_id, week_start_date, snapshot_date,
                                     rows, k + 1, recorded_at, src, st.ret) :
               st \in {ContributionRow(W, alliance_id, week_start_date, snapshot_date,
                                       rows[k], recorded_at, src, n)}})

\* The loop over the payload with the dates as given, then session.commit().
SaveSnapshots(W, alliance_id, week_start_date, snapshot_date, players_data, recorded_at, src) ==
    Only({Only({
        Saved(lp, lp, cm, [snapshots |-> lp.ret]) :
        cm \in {IF lp.exc = "none" THEN Commit(lp.w) ELSE lp}}) :
        lp \in {ContributionLoop(W, alliance_id, week_start_date, snapshot_date,
                                 players_data, 1, recorded_at, src, 0)}})

\* Faulty variant: the dates are used as they arrive.
SaveContributionSnapshotOcr_NoNormalize(W, alliance_id, week_start_date, snapshot_date, players_data, recorded_at, src) ==
    SaveSnapshots(W, alliance_id, week_start_date, snapshot_date, players_data,
                  recorded_at, src)

\* save_contribution_snapshot_ocr: both dates are normalised to midnight first.
SaveContributionSnapshotOcr(W, alliance_id, week_start_date, snapshot_date, players_data, recorded_at, src) ==
    SaveSnapshots(W, alliance_id, Midnight(week_start_date), Midnight(snapshot_date),
                  players_data, recorded_at, src)

(***************************************************************************)
(* Alliance members: the only routine that writes the roster.              *)
(***************************************************************************)
\* str.lower() / str.upper() on ASCII letters
Lower(s) == [i \in DOMAIN s |-> IF s[i] \in 65..90 THEN s[i] + 32 ELSE s[i]]

Upper(s) == [i \in DOMAIN s |-> IF s[i] \in 97..122 THEN s[i] - 32 ELSE s[i]]

\* int() of a string of decimal digits; None stands for ValueError.
RECURSIVE ParseInt(_)
ParseInt(s) ==
    IF s = <<>> \/ \E i \in DOMAIN s : s[i] \notin 48..57 THEN None
    ELSE IF Len(s) = 1 THEN s[1] - 48
    ELSE 10 * ParseInt(SubSeq(s, 1, Len(s) - 1)) + (s[Len(s)] - 48)

\* _parse_furnace_level: "FC4" -> 4, "25" -> 25, unparseable -> None.
ParseFurnaceLevel(furnace_str) ==
    IF furnace_str = NoneStr THEN None
    ELSE LET u == Upper(Strip(furnace_str))
             d == IF Len(u) >= 2 /\ SubSeq(u, 1, 2) = <<70, 67>>
                  THEN SubSeq(u, 3, Len(u)) ELSE u
         IN ParseInt(d)

\* upsert_player: find by (alliance_id, name), create with a flush if absent.
UpsertPlayer(W, alliance_id, name, power, furnace_level, src) ==
    LET id == ExactPlayer(W, alliance_id, name) IN
    IF W.inactive THEN [w |-> W, exc |-> "PendingRollbackError", ret |-> None]
    ELSE IF id = None
    THEN LET f == Flush(SessionAdd(W, "players",
                      [alliance_id |-> alliance_id, name |-> name,
                       current_power |-> power,
                       current_furnace |-> ParseFurnaceLevel(furnace_level),
                       src |-> src]))
         IN [w |-> f.w, exc |-> f.exc,
             ret |-> IF f.exc = "none" THEN Len(f.w.tx["players"]) ELSE None]
    ELSE LET p0 == Obj(W, "players", id)
             p1 == IF power # None THEN [p0 EXCEPT !.current_power = power] ELSE p0
             p2 == IF furnace_level # NoneStr
                   THEN [p1 EXCEPT !.current_furnace = ParseFurnaceLevel(furnace_level)]
                   ELSE p1
         IN [w |-> SetObj(W, "players", id, p2), exc |-> "none", ret |-> id]

\* add_power_history
AddPowerHistory(W, player_id, power, captured_at, src) ==
    SessionAdd(W, "power_history",
        [player_id |-> player_id, power |-> power, captured_at |-> captured_at,
         src |-> src])

\* add_furnace_history
AddFurnaceHistory(W, player_id, furnace_level, captured_at, src) ==
    SessionAdd(W, "furnace_history",
        [player_id |-> player_id, furnace_level |-> ParseFurnaceLevel(furnace_level),
         captured_at |-> captured_at, src |-> src])

NoMemberCounts == [players |-> 0, power_records |-> 0, furnace_records |-> 0]

\* The power of a payload row: "power", else "power_millions" (whole
\* millions here) times 1,000,000.
RowPower(row) ==
    IF row.power # None THEN row.power
    ELSE IF row.power_millions # None THEN row.power_millions * 1000000
    ELSE None

\* One pass of the for loop of save_alliance_members_ocr over payload row
\* `row`; c holds the counts so far.
MemberRowStep(W, alliance_id, row, captured_at, src, c) ==
    IF row.name = <<>> THEN [w |-> W, exc |-> "none", ret |-> c]
    ELSE IF row.name = NotAString THEN [w |-> W, exc |-> "AttributeError", ret |-> c]
    ELSE IF Lower(row.name) = <<110, 117, 108, 108>>
    THEN [w |-> W, exc |-> "none", ret |-> c]
    ELSE Only({
        LET power == RowPower(row)
            w1 == IF power # None
                  THEN AddPowerHistory(up.w, up.ret, power, captured_at, src)
                  ELSE up.w
            w2 == IF row.furnace_level # NoneStr
                  THEN AddFurnaceHistory(w1, up.ret, row.furnace_level, captured_at, src)
                  ELSE w1
        IN  IF up.exc # "none" THEN [w |-> up.w, exc |-> up.exc, ret |-> c]
            ELSE [w |-> w2, exc |-> "none",
                  ret |-> [players |-> c.players + 1,
                           power_records |->
                               c.power_records + (IF power # None THEN 1 ELSE 0),
                           furnace_records |->
                               c.furnace_records
                               + (IF row.furnace_level # NoneStr THEN 1 ELSE 0)]] :
        up \in {UpsertPlayer(W, alliance_id, row.name, RowPower(row),
                             row.furnace_level, src)}})

\* The for loop of save_alliance_members_ocr from payload row k on.
RECURSIVE MembersLoop(_, _, _, _, _, _, _)
MembersLoop(W, alliance_id, rows, k, captured_at, src, c) ==
    IF k > Len(rows) THEN [w |-> W, exc |-> "none", ret |-> c]
    ELSE Only({IF st.exc # "none" THEN st
               ELSE MembersLoop(st.w, alliance_id, rows, k + 1, captured_at, src,
                                st.ret) :
               st \in {MemberRowStep(W, alliance_id, rows[k], captured_at, src, c)}})

\* save_alliance_members_ocr
SaveAllianceMembersOcr(W, alliance_id, players_data, captured_at, src) ==
    Only({Only({
        Saved(lp, lp, cm, lp.ret) :
        cm \in {IF lp.exc = "none" THEN Commit(lp.w) ELSE lp}}) :
        lp \in {MembersLoop(W, alliance_id, players_data, 1, captured_at, src,
                            NoMemberCounts)}})

(***************************************************************************)
(* Inputs: a roster, payload names, timestamps.                            *)
(***************************************************************************)

nValorin == <<86, 97, 108, 111, 114, 105, 110>>               \* "Valorin"
nValor1n == <<86, 97, 108, 111, 114, 49, 110>>                \* "Valor1n"
nTagValorin == <<91, 72, 69, 73, 93, 32>> \o nValorin         \* "[HEI] Valorin"
nCd == <<67, 100>>                                            \* "Cd"
nEf == <<69, 102>>                                            \* "Ef"
nZz == <<90, 122>>                                            \* "Zz"

PlayerRow(a, n) ==
    [alliance_id |-> a, name |-> n, current_power |-> None,
     current_furnace |-> None, src |-> 0]

\* Valorin and Cd belong to alliance 1, Ef to alliance 2.
Roster == <<PlayerRow(1, nValorin), PlayerRow(1, nCd), PlayerRow(2, nEf)>>

RosterDb == [EmptyTables EXCEPT !["players"] = Roster]

TrapIds == {1, 2}

\* The session the running request owns.
S == [db |-> db, tx |-> tx, new |-> new, dirty |-> dirty, inactive |-> inactive]

\* The call returned (or raised) r: the session is left as the call left it.
Returned(op, r) ==
    /\ db' = r.w.db
    /\ tx' = r.w.tx
    /\ new' = r.w.new
    /\ dirty' = r.w.dirty
    /\ inactive' = r.w.inactive
    /\ calls' = calls + 1
    /\ last' = [op |-> op, exc |-> r.exc, ret |-> r.ret]

InitOn(d) ==
    /\ db = d
    /\ tx = d
    /\ new = EmptyTables
    /\ dirty = NoDirty
    /\ inactive = FALSE
    /\ calls = 0
    /\ hist = <<>>
    /\ last = [op |-> "none", exc |-> "none", ret |-> None]
    /\ results = <<>>
    /\ job_queue = <<>>
    /\ stop_event = FALSE
    /\ worker = [running |-> FALSE, stopping |-> FALSE, thread |-> 0, threads |-> <<>>,
                 enqueued |-> 0, late |-> FALSE]
    /\ uploads = <<>>

\* The payload rows of a call that resolved to a roster player, as
\* observations of (event, player) made at recorded_at = at.
RowObs(kind, ev, rows, at, resolve(_)) ==
    LET all == [k \in DOMAIN rows |->
                   [kind |-> kind,
                    key |-> <<ev, IF rows[k].name \in {<<>>, NotAString}
                                  THEN None ELSE resolve(rows[k].name)>>,
                    val |-> rows[k], at |-> at]]
    IN SelectSeq(all, LAMBDA h : h.key[2] # None)

\* Payloads of at most n rows.
Payloads(Rows, n) == UNION {[1..m -> Rows] : m \in 0..n}

(***************************************************************************)
(* Bear event specification: overview screenshots of both traps.           *)
(***************************************************************************)
MaxBearCalls == 3

BearTimes == {0, 23, 25, 48}

BearEventObs(a, trap, t, pick, r) ==
    [kind |-> "bear_event", key |-> <<a, trap>>,
     val |-> <<t, IF pick # None THEN pick ELSE Len(r.w.tx["bear_events"])>>]

BearOverviewCall ==
    /\ calls < MaxBearCalls
    /\ \E trap \in TrapIds, t \in BearTimes, rally_count \in {None, 50} :
       \E pick \in BearPicks(S, 1, trap, t) :
        \E r \in {SaveBearOverview(S, 1, trap, t, rally_count, None, pick, 0)} :
            /\ Returned("bear_overview", r)
            /\ hist' = IF r.exc = "none"
                       THEN Append(hist, BearEventObs(1, trap, t, pick, r))
                       ELSE hist
            /\ UNCHANGED <<results, wvars>>

InitBearEvent == InitOn(RosterDb)

NextBearEvent == BearOverviewCall

SpecBearEvent == InitBearEvent /\ [][NextBearEvent]_vars

\* The bear events of an alliance and trap in the committed database.
BearEventsOf(a, trap) ==
    {i \in DOMAIN db["bear_events"] :
        db["bear_events"][i].alliance_id = a /\ db["bear_events"][i].trap_id = trap}

\* The observation times of an alliance and trap, in arrival order.
BearObsOf(a, trap) ==
    SelectSeq(hist, LAMBDA h : h.kind = "bear_event" /\ h.key = <<a, trap>>)

\* C1: two sequential observations of one alliance and trap 23 hours apart,
\* in either arrival order, leave exactly one BearEvent, started at the
\* earlier of the two; two observations 25 hours apart leave two events.
C1_TimeWindowGrouping ==
    \A trap \in TrapIds :
        LET o == BearObsOf(1, trap)
            evs == BearEventsOf(1, trap)
            starts == {db["bear_events"][i].started_at : i \in evs}
        IN  Len(o) = 2 =>
            /\ Abs(o[1].val[1] - o[2].val[1]) = 23 =>
                   /\ Cardinality(evs) = 1
                   /\ starts = {Min(o[1].val[1], o[2].val[1])}
            /\ Abs(o[1].val[1] - o[2].val[1]) = 25 =>
                   /\ Cardinality(evs) = 2
                   /\ starts = {o[1].val[1], o[2].val[1]}

\* C26: no two distinct BearEvents of one alliance and trap have started_at
\* values within EVENT_GROUPING_WINDOW_HOURS of each other.
C26_EventsMoreThanWindowApart ==
    \A trap \in TrapIds : \A i, j \in BearEventsOf(1, trap) :
        i # j => Abs(db["bear_events"][i].started_at - db["bear_events"][j].started_at)
                     > EVENT_GROUPING_WINDOW_HOURS

\* The later observation arrived first and the event was pulled back to 0.
C1_Witness ==
    /\ Len(BearObsOf(1, 1)) = 2
    /\ BearObsOf(1, 1)[1].val[1] = 23
    /\ BearObsOf(1, 1)[2].val[1] = 0
    /\ Cardinality(BearEventsOf(1, 1)) = 1

(***************************************************************************)
(* Bear score specification: damage screenshots of trap 1, each payload    *)
(* listing a player at most once.                                          *)
(***************************************************************************)
MaxScoreCalls == 2

BearScoreTimes == {0, 48}

BearRows ==
    [name : {nValorin, nTagValorin}, damage_points : {50, 100, 150},
     rank : {None, 2}]

BearPayloads ==
    {<<r>> : r \in BearRows} \cup
    {<<[name |-> nZz, damage_points |-> 100, rank |-> 1], r>> :
        r \in {x \in BearRows : x.name = nTagValorin /\ x.rank = None}} \cup
    {<<[name |-> nCd, damage_points |-> 100, rank |-> 1], r>> :
        r \in {x \in BearRows : x.name = nValorin /\ x.rank = None}}

SaveBearEventOcrCall(Traps, Times, PS) ==
    /\ calls < MaxScoreCalls
    /\ \E trap \in Traps, t \in Times, players_data \in PS :
       \E pick \in BearPicks(S, 1, trap, t) :
        \E r \in {SaveBearEventOcr(S, 1, trap, t, players_data, t, pick, 0)} :
            /\ Returned("save_bear_event_ocr", r)
            /\ hist' = IF r.exc = "none"
                       THEN Append(hist, BearEventObs(1, trap, t, pick, r))
                            \o RowObs("bear_score", r.ret.event_id, players_data, t,
                                      LAMBDA n : ExactPlayer(S, 1, StripTag(n)))
                       ELSE hist
            /\ UNCHANGED <<results, wvars>>

InitBearScore == InitOn(RosterDb)

NextBearScore == SaveBearEventOcrCall({1}, BearScoreTimes, BearPayloads)

SpecBearScore == InitBearScore /\ [][NextBearScore]_vars

\* The observations of kind logged for key, in arrival order.
ObsOf(kind, key) == SelectSeq(hist, LAMBDA h : h.kind = kind /\ h.key = key)

\* The keys observed for kind.
KeysOf(kind) == {hist[i].key : i \in {j \in DOMAIN hist : hist[j].kind = kind}}

\* The committed bear scores of (event, player).
BearScoresOf(key) ==
    {i \in DOMAIN db["bear_scores"] :
        <<db["bear_scores"][i].bear_event_id, db["bear_scores"][i].player_id>> = key}

MaxDamage(o) ==
    CHOOSE m \in {o[i].val.damage_points : i \in DOMAIN o} :
        \A i \in DOMAIN o : o[i].val.damage_points <= m

MaxDupRows == 2

BearDupRows ==
    [name : {nValorin, nTagValorin}, damage_points : {50, 100}, rank : {None}]

BearDupPayloads == Payloads(BearDupRows, MaxDupRows)

InitBearDup == InitOn(RosterDb)

NextBearDup == SaveBearEventOcrCall({1}, {0}, BearDupPayloads)

SpecBearDup == InitBearDup /\ [][NextBearDup]_vars

\* The (bear event, player) pairs the committed bear scores cover.
BearScoreKeys ==
    {<<db["bear_scores"][i].bear_event_id, db["bear_scores"][i].player_id>> :
        i \in DOMAIN db["bear_scores"]}

\* C3: after any sequence of save_bear_event_ocr calls there is at most one
\* BearScore row per (bear event, player), also when one payload holds two
\* rows that resolve to the same player.
C3_OneScorePerEventPlayer ==
    \A key \in BearScoreKeys : Cardinality(BearScoresOf(key)) <= 1

(***************************************************************************)
(* Foundry specification: signup and result screenshots of legion 1, each  *)
(* payload listing a player at most once; a later screenshot is recorded   *)
(* later.                                                                  *)
(***************************************************************************)
MaxFoundryCalls == 2

FoundryDates == {0, 168}

FoundryNames == {nValorin, nValor1n, nTagValorin}

SignupRow(n, status, p, v) ==
    [name |-> n, status |-> status, foundry_power |-> p, voted |-> v]

SignupRows ==
    {SignupRow(n, "join", 10, TRUE) : n \in FoundryNames} \cup
    {SignupRow(n, "join", 20, FALSE) : n \in FoundryNames}

SignupData(total_troop_power, players) ==
    [total_troop_power |-> total_troop_power, max_participants |-> None,
     actual_participants |-> None, players |-> players]

FoundrySignupPayloads ==
    {SignupData(None, <<r>>) : r \in SignupRows} \cup
    {SignupData(500, <<SignupRow(nCd, "join", 30, TRUE),
                       SignupRow(nValor1n, "join", 10, TRUE)>>),
     SignupData(None, <<SignupRow(nZz, "join", 30, TRUE),
                        SignupRow(nTagValorin, "join", 20, FALSE)>>),
     SignupData(None, <<SignupRow(nValorin, "no_engagements", 10, TRUE)>>)}

ResultRow(n, score, rank) == [name |-> n, score |-> score, rank |-> rank]

ResultRows ==
    {ResultRow(n, 10, None) : n \in FoundryNames} \cup
    {ResultRow(n, 20, 1) : n \in FoundryNames}

FoundryResultPayloads ==
    {<<r>> : r \in ResultRows} \cup
    {<<ResultRow(nCd, 30, 2), ResultRow(nValor1n, 10, None)>>,
     <<ResultRow(nZz, 30, 2), ResultRow(nTagValorin, 20, 1)>>}

\* recorded_at of the screenshot the next call saves.
Now == 100 + calls

Joined(players) == SelectSeq(players, LAMBDA p : p.status = "join")

SaveFoundrySignupOcrCall(Dates, PS, bound) ==
    /\ calls < bound
    /\ \E event_date \in Dates, signup_data \in PS :
           \E r \in {SaveFoundrySignupOcr(S, 1, 1, event_date, signup_data, Now, 0)} :
               /\ Returned("save_foundry_signup_ocr", r)
               /\ hist' = IF r.exc = "none"
                          THEN hist \o RowObs("foundry_signup", r.ret.event_id,
                                   Joined(signup_data.players), Now,
                                   LAMBDA n : FindPlayerWithFuzzyFallback(S, 1, StripTag(n)))
                          ELSE hist
               /\ UNCHANGED <<results, wvars>>

SaveFoundryResultOcrCall(Dates, PS, bound) ==
    /\ calls < bound
    /\ \E event_date \in Dates, players_data \in PS :
           \E r \in {SaveFoundryResultOcr(S, 1, 1, event_date, players_data, Now, 0)} :
               /\ Returned("save_foundry_result_ocr", r)
               /\ hist' = IF r.exc = "none"
                          THEN hist \o RowObs("foundry_result", r.ret.event_id,
                                   players_data, Now,
                                   LAMBDA n : FindPlayerWithFuzzyFallback(S, 1, StripTag(n)))
                          ELSE hist
               /\ UNCHANGED <<results, wvars>>

InitFoundry == InitOn(RosterDb)

NextFoundry ==
    \/ SaveFoundrySignupOcrCall(FoundryDates, FoundrySignupPayloads, MaxFoundryCalls)
    \/ SaveFoundryResultOcrCall(FoundryDates, FoundryResultPayloads, MaxFoundryCalls)

SpecFoundry == InitFoundry /\ [][NextFoundry]_vars

\* The committed rows of table t that belong to (event, player) = key.
RowsOf(t, evcol, key) ==
    {i \in DOMAIN db[t] : <<db[t][i][evcol], db[t][i].player_id>> = key}

\* The keys first observed by the last call.
FirstSeenByLast(kind) ==
    {key \in KeysOf(kind) : ObsOf(kind, key)[1].at = 100 + calls - 1}

MaxContribCalls == 2

\* Monday 08:00 and Monday 23:00 of the same week.
WeekStarts == {8, 23}

\* Tuesday 08:00, Tuesday 23:00, Wednesday 08:00.
SnapshotDates == {32, 47, 56}

ContribRow(n, c) == [name |-> n, contribution |-> c, rank |-> None]

ContribPayloads ==
    {<<ContribRow(n, c)>> : n \in {nValorin, nTagValorin}, c \in {10, 20}} \cup
    {<<ContribRow(nZz, 30), ContribRow(nValorin, 10)>>}

SaveContributionSnapshotOcrCall(Weeks, Dates, PS, bound) ==
    /\ calls < bound
    /\ \E week_start_date \in Weeks, snapshot_date \in Dates, players_data \in PS :
           \E r \in {SaveContributionSnapshotOcr(S, 1, week_start_date, snapshot_date,
                                                players_data, Now, 0)} :
               /\ Returned("save_contribution_snapshot_ocr", r)
               /\ hist' = IF r.exc = "none"
                          THEN hist \o RowObs("contribution",
                                   <<week_start_date, snapshot_date>>, players_data, Now,
                                   LAMBDA n : ExactPlayer(S, 1, StripTag(n)))
                          ELSE hist
               /\ UNCHANGED <<results, wvars>>

InitContribution == InitOn(RosterDb)

NextContribution ==
    SaveContributionSnapshotOcrCall(WeekStarts, SnapshotDates, ContribPayloads,
                                    MaxContribCalls)

SpecContribution == InitContribution /\ [][NextContribution]_vars

\* The calendar day a datetime falls on.
Day(t) == t \div 24

ContribObs == SelectSeq(hist, LAMBDA h : h.kind = "contribution")

\* Two submissions are for the same player, week day and snapshot day.
SameDays(h1, h2) ==
    /\ h1.key[2] = h2.key[2]
    /\ Day(h1.key[1][1]) = Day(h2.key[1][1])
    /\ Day(h1.key[1][2]) = Day(h2.key[1][2])

\* The committed snapshots of submission h's player on h's calendar days.
SnapshotsFor(h) ==
    {i \in DOMAIN db["contribution_snapshots"] :
        LET r == db["contribution_snapshots"][i] IN
        /\ r.alliance_id = 1
        /\ r.player_id = h.key[2]
        /\ Day(r.week_start_date) = Day(h.key[1][1])
        /\ Day(r.snapshot_date) = Day(h.key[1][2])}

\* Submission i is the first for its player and days.
FirstOfItsDays(o, i) == \A k \in 1..(i - 1) : ~SameDays(o[k], o[i])

\* C6: two submissions for the same alliance and player whose week_start_date
\* and snapshot_date fall on the same calendar days at different times of day
\* share one key: exactly one snapshot exists for it, with the first
\* submission's values, and the second submission adds nothing.
C6_SameDaySameKey ==
    LET o == ContribObs IN
    /\ \A i \in DOMAIN o : FirstOfItsDays(o, i) =>
           /\ Cardinality(SnapshotsFor(o[i])) = 1
           /\ \A r \in SnapshotsFor(o[i]) :
                  /\ db["contribution_snapshots"][r].contribution_amount
                         = o[i].val.contribution
                  /\ db["contribution_snapshots"][r].recorded_at = o[i].at
    /\ (last.op = "save_contribution_snapshot_ocr" /\ last.exc = "none") =>
           last.ret.snapshots =
               Cardinality({i \in DOMAIN o :
                   FirstOfItsDays(o, i) /\ o[i].at = 100 + calls - 1})

\* Monday 08:00 / Tuesday 08:00 with 10, then Monday 23:00 / Tuesday 23:00
\* with 20: the second submission was skipped.
C6_Witness ==
    LET o == ContribObs IN
    /\ Len(o) = 2
    /\ o[1].key = <<<<8, 32>>, 1>>
    /\ o[2].key = <<<<23, 47>>, 1>>
    /\ o[1].val.contribution = 10
    /\ o[2].val.contribution = 20
    /\ last.exc = "none" /\ last.ret.snapshots = 0

(***************************************************************************)
(* Alliance coordination specification: signup screenshots of two weeks,   *)
(* each payload listing a player at most once.                             *)
(***************************************************************************)
MaxAcCalls == 2

AcWeeks == {0, 168}

AcRow(n, p) == [name |-> n, ac_power |-> p]

AcData(players) ==
    [total_registered |-> None, total_power |-> None, players |-> players]

AcPayloads ==
    {AcData(<<AcRow(n, p)>>) : n \in {nValorin, nTagValorin}, p \in {50, 100, 150}}
    \cup {AcData(<<AcRow(nCd, 70), AcRow(nValorin, 100)>>),
          AcData(<<AcRow(nZz, 70), AcRow(nTagValorin, 50)>>)}

SaveAcSignupOcrCall(Weeks, PS, bound) ==
    /\ calls < bound
    /\ \E week_start_date \in Weeks, signup_data \in PS :
           \E r \in {SaveAcSignupOcr(S, 1, week_start_date, signup_data, Now, 0)} :
               /\ Returned("save_ac_signup_ocr", r)
               /\ hist' = IF r.exc = "none"
                          THEN hist \o RowObs("ac_signup", r.ret.event_id,
                                   signup_data.players, Now,
                                   LAMBDA n : ExactPlayer(S, 1, StripTag(n)))
                          ELSE hist
               /\ UNCHANGED <<results, wvars>>

InitAc == InitOn(RosterDb)

NextAc == SaveAcSignupOcrCall(AcWeeks, AcPayloads, MaxAcCalls)

SpecAc == InitAc /\ [][NextAc]_vars

\* The first observation that reached the largest ac_power of o.
FirstMaxPower(o) ==
    CHOOSE k \in DOMAIN o :
        /\ \A i \in DOMAIN o : o[i].val.ac_power <= o[k].val.ac_power
        /\ \A i \in 1..(k - 1) : o[i].val.ac_power < o[k].val.ac_power

MaxMemberCalls == 3

CapturedAts == {0, 1}

nNw == <<78, 119>>                                            \* "Nw"
nNULL == <<78, 85, 76, 76>>                                   \* "NULL"
fFC4 == <<70, 67, 52>>                                        \* "FC4"
f25 == <<50, 53>>                                             \* "25"
fFCX == <<70, 67, 88>>                                        \* "FCX"

MemberRow(n, power, power_millions, furnace_level) ==
    [name |-> n, power |-> power, power_millions |-> power_millions,
     furnace_level |-> furnace_level]

MemberPayloads ==
    {<<MemberRow(nValorin, 5, None, fFC4)>>,
     <<MemberRow(nValorin, None, 2, NoneStr)>>,
     <<MemberRow(nNw, 7, None, f25), MemberRow(nValorin, 5, None, fFC4)>>,
     <<MemberRow(nNULL, 9, None, NoneStr), MemberRow(nCd, None, None, NoneStr)>>,
     <<MemberRow(nCd, 6, None, fFCX)>>}

SaveAllianceMembersOcrCall ==
    /\ calls < MaxMemberCalls
    /\ \E players_data \in MemberPayloads, captured_at \in CapturedAts :
           \E r \in {SaveAllianceMembersOcr(S, 1, players_data, captured_at, 0)} :
               /\ Returned("save_alliance_members_ocr", r)
               /\ hist' = Append(hist,
                      [kind |-> "members_call", key |-> <<1, captured_at>>,
                       val |-> players_data, at |-> captured_at,
                       usable |-> ~inactive, exc |-> r.exc])
               /\ UNCHANGED <<results, wvars>>

\* get_session: the request ends, its session is closed, the next request
\* gets a new one.
NewRequest ==
    /\ db' = Close(S).db
    /\ tx' = Close(S).tx
    /\ new' = Close(S).new
    /\ dirty' = Close(S).dirty
    /\ inactive' = Close(S).inactive
    /\ UNCHANGED <<calls, hist, last, results, wvars>>

InitMembers == InitOn(RosterDb)

NextMembers == SaveAllianceMembersOcrCall \/ NewRequest

SpecMembers == InitMembers /\ [][NextMembers]_vars

\* Call i repeats an earlier successful call: same players, same captured_at.
RepeatsEarlier(i) ==
    \E j \in 1..(i - 1) :
        /\ hist[j].kind = "members_call" /\ hist[j].exc = "none"
        /\ hist[j].key = hist[i].key /\ hist[j].val = hist[i].val

\* C5: a save_alliance_members_ocr call that repeats an earlier one (same
\* players, same captured_at) on a usable session completes without error,
\* and there is one power row and one furnace row per (player, captured_at).
C5_RepeatedUploadIsNoOp ==
    /\ \A i \in DOMAIN hist :
           (hist[i].kind = "members_call" /\ hist[i].usable /\ RepeatsEarlier(i))
               => hist[i].exc = "none"
    /\ UniqueOk("power_history", db["power_history"])
    /\ UniqueOk("furnace_history", db["furnace_history"])

(***************************************************************************)
(* Upsert specification: bear, foundry, alliance coordination and          *)
(* contribution screenshots of both alliances, naming a roster player of   *)
(* the alliance, a misread one, and a player of the other alliance.        *)
(***************************************************************************)
MaxUpsertCalls == 2

UpsertAlliances == {1, 2}

UpsertNames == {nValorin, nValor1n, nEf}

\* The rows that refer to players.
PlayerTables ==
    {"bear_scores", "foundry_signups", "foundry_results", "ac_signups",
     "contribution_snapshots"}

RECURSIVE RowTotal(_, _)
RowTotal(d, T) ==
    IF T = {} THEN 0
    ELSE LET t == CHOOSE x \in T : TRUE IN Len(d[t]) + RowTotal(d, T \ {t})

\* One upsert call for alliance a with the single payload name n returned r,
\* having stored `stored` rows by its own count.
UpsertReturned(op, a, n, r, stored) ==
    /\ Returned(op, r)
    /\ hist' = Append(hist,
           [kind |-> "upsert", op |-> op, key |-> <<a, n>>, val |-> stored,
            at |-> Now, exc |-> r.exc, before |-> RowTotal(db, PlayerTables),
            after |-> RowTotal(r.w.db, PlayerTables)])
    /\ UNCHANGED <<results, wvars>>

BearUpsert ==
    /\ calls < MaxUpsertCalls
    /\ \E a \in UpsertAlliances, n \in UpsertNames :
       \E pick \in BearPicks(S, a, 1, 0) :
        \E r \in {SaveBearEventOcr(S, a, 1, 0,
                     <<[name |-> n, damage_points |-> 100, rank |-> None]>>,
                     Now, pick, 0)} :
            UpsertReturned("save_bear_event_ocr", a, n, r,
                IF r.exc = "none"
                THEN r.ret.scores_added + r.ret.scores_updated ELSE 0)

FoundrySignupUpsert ==
    /\ calls < MaxUpsertCalls
    /\ \E a \in UpsertAlliances, n \in UpsertNames :
        \E r \in {SaveFoundrySignupOcr(S, a, 1, 0,
                     SignupData(None, <<SignupRow(n, "join", 10, TRUE)>>), Now, 0)} :
            UpsertReturned("save_foundry_signup_ocr", a, n, r,
                IF r.exc = "none" THEN r.ret.signups ELSE 0)

FoundryResultUpsert ==
    /\ calls < MaxUpsertCalls
    /\ \E a \in UpsertAlliances, n \in UpsertNames :
        \E r \in {SaveFoundryResultOcr(S, a, 1, 0, <<ResultRow(n, 10, None)>>,
                                       Now, 0)} :
            UpsertReturned("save_foundry_result_ocr", a, n, r,
                IF r.exc = "none" THEN r.ret.results ELSE 0)

AcSignupUpsert ==
    /\ calls < MaxUpsertCalls
    /\ \E a \in UpsertAlliances, n \in UpsertNames :
        \E r \in {SaveAcSignupOcr(S, a, 0, AcData(<<AcRow(n, 50)>>), Now, 0)} :
            UpsertReturned("save_ac_signup_ocr", a, n, r,
                IF r.exc = "none" THEN r.ret.signups ELSE 0)

ContributionUpsert ==
    /\ calls < MaxUpsertCalls
    /\ \E a \in UpsertAlliances, n \in UpsertNames :
        \E r \in {SaveContributionSnapshotOcr(S, a, 0, 24, <<ContribRow(n, 10)>>,
                                              Now, 0)} :
            UpsertReturned("save_contribution_snapshot_ocr", a, n, r,
                IF r.exc = "none" THEN r.ret.snapshots ELSE 0)

InitUpserts == InitOn(RosterDb)

NextUpserts ==
    \/ BearUpsert
    \/ FoundrySignupUpsert
    \/ FoundryResultUpsert
    \/ AcSignupUpsert
    \/ ContributionUpsert

SpecUpserts == InitUpserts /\ [][NextUpserts]_vars

\* The alliance a committed row of table t was stored for.
RowAlliance(t, row) ==
    CASE t = "bear_scores" -> db["bear_events"][row.bear_event_id].alliance_id
      [] t = "foundry_signups" -> db["foundry_events"][row.foundry_event_id].alliance_id
      [] t = "foundry_results" -> db["foundry_events"][row.foundry_event_id].alliance_id
      [] t = "ac_signups" -> db["ac_events"][row.ac_event_id].alliance_id
      [] t = "contribution_snapshots" -> row.alliance_id

\* No roster player of alliance a has a name close to n.
StrangerTo(a, n) ==
    \A i \in DOMAIN Roster :
        Roster[i].alliance_id = a =>
            ~RatioAtLeast(Ratio(Roster[i].name, n), FUZZY_MATCH_THRESHOLD)

\* C10: the bear, foundry, alliance coordination and contribution upserts
\* never create or modify a Player row; a payload row whose name resolves to
\* no player of the alliance is dropped (the call stores nothing for it); and
\* every persisted row refers to a player of the initial roster of the
\* alliance the row was stored for.
C10_UpsertsNeverTouchPlayers ==
    /\ db["players"] = Roster
    /\ tx["players"] = Roster
    /\ new["players"] = <<>>
    /\ dirty["players"] = <<>>
    /\ \A t \in PlayerTables : \A i \in DOMAIN db[t] :
           /\ db[t][i].player_id \in DOMAIN Roster
           /\ Roster[db[t][i].player_id].alliance_id = RowAlliance(t, db[t][i])
    /\ \A k \in DOMAIN hist :
           (hist[k].kind = "upsert" /\ StrangerTo(hist[k].key[1], hist[k].key[2]))
               => /\ hist[k].exc = "none"
                  /\ hist[k].val = 0
                  /\ hist[k].after = hist[k].before

\* Alliance 1's foundry signup list named "Ef", a player of alliance 2 only:
\* the row was dropped; then "Valor1n" resolved to Valorin and was stored.
C10_Witness ==
    /\ Len(hist) = 2
    /\ hist[1].kind = "upsert" /\ hist[1].key = <<1, nEf>> /\ hist[1].val = 0
    /\ hist[2].key = <<1, nValor1n>> /\ hist[2].val = 1
    /\ last.op = "save_foundry_signup_ocr"
    /\ Len(db["foundry_signups"]) = 1

\* Call i is the first call of its routine for its alliance: it stores a row
\* exactly when its payload name resolved to a player.
FirstOfRoutine(i) ==
    \A k \in 1..(i - 1) :
        ~(hist[k].op = hist[i].op /\ hist[k].key[1] = hist[i].key[1])

\* C11: for the same roster and the same raw name every upsert routine
\* resolves the name alike: two first calls of two routines for the same
\* alliance and name both store a row or both drop it.
C11_SameResolverEverywhere ==
    \A i \in DOMAIN hist : \A j \in DOMAIN hist :
        (/\ hist[i].kind = "upsert" /\ hist[j].kind = "upsert"
         /\ hist[i].key = hist[j].key
         /\ FirstOfRoutine(i) /\ FirstOfRoutine(j))
            => hist[i].val = hist[j].val

(***************************************************************************)
(* Screenshot processing: ScreenshotProcessor.process_screenshot and the   *)
(* upload endpoint, which processes the files of a batch on one session.   *)
(***************************************************************************)

\* datetime.weekday() of an hour count whose day 0 is a Monday.
Weekday(timestamp) == (timestamp \div 24) % 7

\* logger.<level>(msg, extra={"filename": ...}): LogRecord has an attribute
\* "filename", so makeRecord raises KeyError whenever the level is enabled;
\* nothing configures logging, so WARNING and above are enabled.
LogWithFilename(level) ==
    IF level \in {"warning", "error", "critical"} THEN "KeyError" ELSE "none"

\* The fields of Settings.
SettingsFields ==
    {"database_url", "ai_ocr_enabled", "ai_ocr_model", "ai_ocr_rate_limit_delay",
     "screenshot_timezone"}

\* _should_delete_screenshot reads settings.delete_successful_screenshots.
ShouldDeleteScreenshot ==
    IF "delete_successful_screenshots" \in SettingsFields
    THEN "none" ELSE "AttributeError"

\* A call that passes screenshot_filename= to a function with or without
\* that parameter.
KeywordCall(accepts, W, r) ==
    IF accepts THEN r ELSE [w |-> W, exc |-> "TypeError", ret |-> None]

\* _process_alliance_members
ProcessAllianceMembers(W, alliance_id, data, timestamp, src) ==
    Only({[w |-> r.w, exc |-> r.exc, ret |-> IF r.exc = "none" THEN 0 ELSE None] :
          r \in {SaveAllianceMembersOcr(W, alliance_id, data, timestamp, src)}})

\* _process_bear_damage: save_bear_event_ocr has no screenshot_filename.
ProcessBearDamage(W, alliance_id, data, timestamp, src) ==
    KeywordCall(FALSE, W, [w |-> W, exc |-> "none", ret |-> Len(data)])

\* _process_foundry_signup: the event is dated on the Sunday after timestamp.
ProcessFoundrySignup(W, alliance_id, data, timestamp, src) ==
    LET d == (6 - Weekday(timestamp)) % 7
        days_until_sunday == IF d = 0 THEN 7 ELSE d
        event_date == timestamp + 24 * days_until_sunday
    IN Only({[w |-> r.w, exc |-> r.exc,
              ret |-> IF r.exc = "none" THEN r.ret.signups ELSE None] :
             r \in {KeywordCall(TRUE, W,
                       SaveFoundrySignupOcr(W, alliance_id, 1, event_date, data,
                                            timestamp, src))}})

\* _process_foundry_result: the event is dated on the Sunday before timestamp.
ProcessFoundryResult(W, alliance_id, data, timestamp, src) ==
    LET days_since_sunday == (Weekday(timestamp) + 1) % 7
        event_date == timestamp - 24 * days_since_sunday
    IN Only({[w |-> r.w, exc |-> r.exc,
              ret |-> IF r.exc = "none" THEN r.ret.results ELSE None] :
             r \in {KeywordCall(TRUE, W,
                       SaveFoundryResultOcr(W, alliance_id, 1, event_date, data,
                                            timestamp, src))}})

\* _process_ac_signup: the week starts timestamp.weekday() days before
\* timestamp; save_ac_signup_ocr has no screenshot_filename.
ProcessAcSignup(W, alliance_id, data, timestamp, src) ==
    LET days_since_monday == Weekday(timestamp)
        week_start == timestamp - 24 * days_since_monday
    IN Only({[w |-> r.w, exc |-> r.exc,
              ret |-> IF r.exc = "none" THEN r.ret.signups ELSE None] :
             r \in {KeywordCall(FALSE, W,
                       SaveAcSignupOcr(W, alliance_id, week_start, data,
                                       timestamp, src))}})

\* _process_contribution: save_contribution_snapshot_ocr has no
\* screenshot_filename.
ProcessContribution(W, alliance_id, data, timestamp, src) ==
    KeywordCall(FALSE, W, [w |-> W, exc |-> "none", ret |-> 0])

\* _process_bear_overview: without a trap number a warning is logged and
\* ValueError raised; otherwise the event is located and committed.
ProcessBearOverview(W, alliance_id, data, timestamp, pick, src) ==
    IF data.trap_id \in {None, 0}
    THEN [w |-> W,
          exc |-> IF LogWithFilename("warning") # "none"
                  THEN LogWithFilename("warning") ELSE "ValueError",
          ret |-> None]
    ELSE SaveBearOverview(W, alliance_id, data.trap_id, timestamp, data.rally_count,
                          data.total_damage, pick, src)

\* Position of the first occurrence of character c in s (0: none).
RECURSIVE Find(_, _, _)
Find(s, c, k) ==
    IF k > Len(s) THEN 0 ELSE IF s[k] = c THEN k ELSE Find(s, c, k + 1)

\* save_alliance_power_snapshot_ocr: one row per entry with a name; a
\* leading "[TAG]" is split off the name.
RECURSIVE AlliancePowerLoop(_, _, _, _, _, _)
AlliancePowerLoop(W, alliances_data, k, snapshot_date, recorded_at, src) ==
    IF k > Len(alliances_data) THEN W
    ELSE LET n == alliances_data[k].alliance_name_with_tag
             close == Find(n, 93, 1)
             tagged == n # <<>> /\ n[1] = 91 /\ close > 0
         IN  AlliancePowerLoop(
                 IF n = <<>> THEN W
                 ELSE SessionAdd(W, "alliance_power_snapshots",
                          [alliance_name |-> IF tagged THEN SubSeq(n, close + 1, Len(n))
                                             ELSE n,
                           alliance_tag |-> IF tagged THEN SubSeq(n, 2, close - 1)
                                            ELSE NoneStr,
                           total_power |-> alliances_data[k].total_power,
                           rank |-> alliances_data[k].rank,
                           snapshot_date |-> snapshot_date,
                           recorded_at |-> recorded_at, src |-> src]),
                 alliances_data, k + 1, snapshot_date, recorded_at, src)

SaveAlliancePowerSnapshotOcr(W, snapshot_date, alliances_data, recorded_at, src) ==
    Only({[w |-> c.w, exc |-> c.exc,
           ret |-> IF c.exc = "none"
                   THEN [snapshots |-> Cardinality({k \in DOMAIN alliances_data :
                             alliances_data[k].alliance_name_with_tag # <<>>})]
                   ELSE None] :
          c \in {Commit(AlliancePowerLoop(W, alliances_data, 1, snapshot_date,
                                          recorded_at, src))}})

\* _process_alliance_power
ProcessAlliancePower(W, alliance_id, data, timestamp, src) ==
    Only({[w |-> r.w, exc |-> r.exc,
           ret |-> IF r.exc = "none" THEN r.ret.snapshots ELSE None] :
          r \in {SaveAlliancePowerSnapshotOcr(W, timestamp, data, timestamp, src)}})

KnownTypes ==
    {"alliance_members", "bear_damage", "foundry_signup", "foundry_result",
     "ac_signup", "contribution", "alliance_power", "bear_overview"}

\* The try block of process_screenshot: the branch of screenshot_type.
ProcessByType(W, alliance_id, screenshot_type, data, timestamp, pick, src) ==
    CASE screenshot_type = "alliance_members" ->
             ProcessAllianceMembers(W, alliance_id, data, timestamp, src)
      [] screenshot_type = "bear_damage" ->
             ProcessBearDamage(W, alliance_id, data, timestamp, src)
      [] screenshot_type = "foundry_signup" ->
             ProcessFoundrySignup(W, alliance_id, data, timestamp, src)
      [] screenshot_type = "foundry_result" ->
             ProcessFoundryResult(W, alliance_id, data, timestamp, src)
      [] screenshot_type = "ac_signup" ->
             ProcessAcSignup(W, alliance_id, data, timestamp, src)
      [] screenshot_type = "contribution" ->
             ProcessContribution(W, alliance_id, data, timestamp, src)
      [] screenshot_type = "alliance_power" ->
             ProcessAlliancePower(W, alliance_id, data, timestamp, src)
      [] screenshot_type = "bear_overview" ->
             ProcessBearOverview(W, alliance_id, data, timestamp, pick, src)
      [] OTHER -> [w |-> W, exc |-> LogWithFilename("warning"), ret |-> None]

\* process_screenshot: an exception of the branch is logged and turned into
\* a failed result; after a success the screenshot may be deleted.  exc is
\* the exception that leaves process_screenshot.
ProcessScreenshot(W, alliance_id, screenshot_type, data, timestamp, pick, src) ==
    Only({
        IF b.exc # "none"
        THEN IF LogWithFilename("error") # "none"
             THEN [w |-> b.w, exc |-> LogWithFilename("error"), result |-> None]
             ELSE [w |-> b.w, exc |-> "none",
                   result |-> [type |-> screenshot_type, success |-> FALSE,
                               records_saved |-> 0]]
        ELSE IF screenshot_type \notin KnownTypes
        THEN [w |-> b.w, exc |-> "none",
              result |-> [type |-> screenshot_type, success |-> FALSE,
                          records_saved |-> 0]]
        ELSE IF ShouldDeleteScreenshot # "none"
        THEN [w |-> b.w, exc |-> ShouldDeleteScreenshot, result |-> None]
        ELSE [w |-> b.w, exc |-> "none",
              result |-> [type |-> screenshot_type, success |-> TRUE,
                          records_saved |-> b.ret]] :
        b \in {ProcessByType(W, alliance_id, screenshot_type, data, timestamp,
                             pick, src)}})

(***************************************************************************)
(* Batch specification: one upload request whose files are processed one   *)
(* after another on the request's session.                                 *)
(***************************************************************************)
MaxFiles == 3

\* Tuesday 08:00 of the second week.
UploadTimes == {200}

BatchMemberData == {<<MemberRow(nValorin, 5, None, fFC4)>>}

BatchBearData == {<<[name |-> nValorin, damage_points |-> 100, rank |-> None]>>}

\* A readable signup list, and one whose second row has a name that is not
\* a string.
BatchSignupData ==
    {SignupData(None, <<SignupRow(nValorin, "join", 10, TRUE)>>),
     SignupData(None, <<SignupRow(nCd, "join", 10, TRUE),
                        SignupRow(NotAString, "join", 10, TRUE)>>)}

BatchResultData == {<<ResultRow(nValorin, 10, None)>>}

BatchOverviewData ==
    {[trap_id |-> x, rally_count |-> 50, total_damage |-> None] : x \in {None, 1}}

\* What .first() can return to the file's event lookup on session W.
FilePicks(W, screenshot_type, data, timestamp) ==
    IF screenshot_type = "bear_overview"
    THEN BearPicks(W, 1, data.trap_id, timestamp)
    ELSE {None}

\* The file's branch would return normally on a new session of its own.
SucceedsAlone(screenshot_type, data, timestamp) ==
    \E pick \in FilePicks(NewSession(db), screenshot_type, data, timestamp) :
        ProcessByType(NewSession(db), 1, screenshot_type, data, timestamp,
                      pick, 0).exc = "none"

\* One pass of the loop of upload_screenshots: the file is processed on the
\* request's session and its result appended; an exception that leaves
\* process_screenshot becomes an "error" result.
ProcessFile(screenshot_type, data, timestamp) ==
    /\ Len(results) < MaxFiles
    /\ last.op # "upload_screenshots"
    /\ \E pick \in FilePicks(S, screenshot_type, data, timestamp) :
       \E b \in {ProcessByType(S, 1, screenshot_type, data, timestamp, pick,
                               Len(results) + 1)} :
       \E out \in {ProcessScreenshot(S, 1, screenshot_type, data, timestamp, pick,
                                     Len(results) + 1)} :
           /\ db' = out.w.db
           /\ tx' = out.w.tx
           /\ new' = out.w.new
           /\ dirty' = out.w.dirty
           /\ inactive' = out.w.inactive
           /\ results' = Append(results,
                  IF out.exc = "none" THEN out.result
                  ELSE [type |-> "error", success |-> FALSE, records_saved |-> 0])
           /\ hist' = Append(hist,
                  [kind |-> "file", key |-> Len(results) + 1,
                   val |-> screenshot_type, at |-> timestamp,
                   ok |-> b.exc = "none",
                   alone |-> SucceedsAlone(screenshot_type, data, timestamp)])
           /\ UNCHANGED <<calls, last, wvars>>

UploadAllianceMembers ==
    \E data \in BatchMemberData, t \in UploadTimes :
        ProcessFile("alliance_members", data, t)

UploadBearDamage ==
    \E data \in BatchBearData, t \in UploadTimes : ProcessFile("bear_damage", data, t)

UploadFoundrySignup ==
    \E data \in BatchSignupData, t \in UploadTimes :
        ProcessFile("foundry_signup", data, t)

UploadFoundryResult ==
    \E data \in BatchResultData, t \in UploadTimes :
        ProcessFile("foundry_result", data, t)

UploadAcSignup ==
    \E t \in UploadTimes : ProcessFile("ac_signup", AcData(<<AcRow(nValorin, 50)>>), t)

UploadContribution ==
    \E t \in UploadTimes : ProcessFile("contribution", <<ContribRow(nValorin, 10)>>, t)

\* "[KIL]Ef" ranked first.
BatchPowerData ==
    {<<[alliance_name_with_tag |-> <<91, 75, 73, 76, 93>> \o nEf,
        total_power |-> 900, rank |-> 1]>>}

UploadAlliancePower ==
    \E data \in BatchPowerData, t \in UploadTimes :
        ProcessFile("alliance_power", data, t)

UploadBearOverview ==
    \E data \in BatchOverviewData, t \in UploadTimes :
        ProcessFile("bear_overview", data, t)

UploadUnknown == \E t \in UploadTimes : ProcessFile("unknown", None, t)

(***************************************************************************)
(* Week specification: AC signup screenshots of one week, and foundry      *)
(* signup and result screenshots around one Sunday, uploaded one after     *)
(* another.  Hour 0 is a Monday 00:00 UTC.                                 *)
(***************************************************************************)
\* Monday 09:00, Wednesday 20:00 and Sunday 23:00 of the second week.
AcWeekTimes == {168 + 9, 168 + 48 + 20, 168 + 144 + 23}

\* Friday 09:00 and Friday 10:00 of the second week.
FoundrySignupTimes == {168 + 96 + 9, 168 + 96 + 10}

\* Sunday 22:00 of the second week and Monday 09:00 of the third.
FoundryResultTimes == {168 + 144 + 22, 336 + 9}

UploadAcSignupAt ==
    \E t \in AcWeekTimes : ProcessFile("ac_signup", AcData(<<AcRow(nValorin, 50)>>), t)

UploadFoundrySignupAt ==
    \E t \in FoundrySignupTimes :
        ProcessFile("foundry_signup",
                    SignupData(None, <<SignupRow(nValorin, "join", 10, TRUE)>>), t)

UploadFoundryResultAt ==
    \E data \in BatchResultData, t \in FoundryResultTimes :
        ProcessFile("foundry_result", data, t)

InitWeek == InitOn(RosterDb)

NextWeek ==
    \/ UploadAcSignupAt
    \/ UploadFoundrySignupAt
    \/ UploadFoundryResultAt

SpecWeek == InitWeek /\ [][NextWeek]_vars

\* The positions in hist of the files of a type.
FilesOfType(screenshot_type) ==
    {i \in DOMAIN hist : hist[i].kind = "file" /\ hist[i].val = screenshot_type}

\* C27: once AC signup screenshots captured in one Monday-based week were
\* processed, exactly one ACEvent exists for the alliance.
C27_OneAcEventPerWeek ==
    FilesOfType("ac_signup") # {} =>
        Cardinality({i \in DOMAIN db["ac_events"] :
                        db["ac_events"][i].alliance_id = 1}) = 1

\* C28: once a foundry signup screenshot captured before the Sunday and
\* then a foundry result screenshot captured after it were processed, one
\* FoundryEvent exists for the alliance and legion.
C28_ResultFindsSignupEvent ==
    (\E i \in FilesOfType("foundry_signup"), j \in FilesOfType("foundry_result") : i < j)
        => Cardinality({i \in DOMAIN db["foundry_events"] :
                           /\ db["foundry_events"][i].alliance_id = 1
                           /\ db["foundry_events"][i].legion_number = 1}) = 1

RECURSIVE TotalRecords(_, _)
TotalRecords(rs, k) ==
    IF k > Len(rs) THEN 0 ELSE rs[k].records_saved + TotalRecords(rs, k + 1)

\* The summary of upload_screenshots; the request ends and get_session
\* closes its session.
Respond ==
    /\ Len(results) >= 1
    /\ last.op # "upload_screenshots"
    /\ db' = Close(S).db
    /\ tx' = Close(S).tx
    /\ new' = Close(S).new
    /\ dirty' = Close(S).dirty
    /\ inactive' = Close(S).inactive
    /\ calls' = calls + 1
    /\ last' = [op |-> "upload_screenshots", exc |-> "none",
                ret |-> [successful |->
                             Cardinality({i \in DOMAIN results : results[i].success}),
                         total_records |-> TotalRecords(results, 1)]]
    /\ UNCHANGED <<hist, results, wvars>>

InitBatch == InitOn(RosterDb)

NextBatch ==
    \/ UploadAllianceMembers
    \/ UploadBearDamage
    \/ UploadFoundrySignup
    \/ UploadFoundryResult
    \/ UploadAcSignup
    \/ UploadContribution
    \/ UploadAlliancePower
    \/ UploadBearOverview
    \/ UploadUnknown
    \/ Respond

SpecBatch == InitBatch /\ [][NextBatch]_vars

\* The files processed so far, in order.
Files == SelectSeq(hist, LAMBDA h : h.kind = "file")

\* C8: a committed row written for a file of the batch belongs to a file
\* whose processing completed: nothing a file wrote before it failed is ever
\* committed, neither at the failure nor by a later file's commit.
C8_FileWritesAtomic ==
    \A t \in TableNames : \A i \in DOMAIN db[t] :
        db[t][i].src # 0 => Files[db[t][i].src].ok

\* C9: in a batch with a failing file every file that would succeed alone
\* succeeds and is reported with success = true, every file that fails alone
\* is reported with success = false, and the summary counts exactly the
\* files that would succeed alone.
C9_BatchFaultIsolation ==
    (\E j \in DOMAIN Files : ~Files[j].alone) =>
        /\ \A i \in DOMAIN Files :
               /\ Files[i].alone => (Files[i].ok /\ results[i].success)
               /\ ~Files[i].alone => ~results[i].success
        /\ last.op = "upload_screenshots" =>
               last.ret.successful =
                   Cardinality({i \in DOMAIN Files : Files[i].alone})

\* The committed rows that file k of the batch created.
RowsCreated(k) ==
    UNION {{<<t, i>> : i \in {j \in DOMAIN db[t] : db[t][j].src = k}} : t \in TableNames}

\* C25: a file whose routine completed is reported successful with
\* records_saved equal to the number of rows it created, and the summary's
\* total is the sum of the files' records_saved.
C25_RecordsSavedCountsRows ==
    /\ \A k \in DOMAIN Files :
           Files[k].ok =>
               /\ results[k].success
               /\ results[k].records_saved = Cardinality(RowsCreated(k))
    /\ last.op = "upload_screenshots" =>
           last.ret.total_records = TotalRecords(results, 1)

\* C30: a file is reported with success = true exactly when its routine
\* committed its rows.
C30_SuccessIffCommitted ==
    \A k \in DOMAIN Files : results[k].success <=> Files[k].ok

(***************************************************************************)
(* Resolver specification: fuzzy_match_player and                          *)
(* find_player_with_fuzzy_fallback called with names in several spellings  *)
(* on two rosters.                                                         *)
(***************************************************************************)
MaxResolveCalls == 2

nValorn == <<86, 97, 108, 111, 114, 110>>                     \* "Valorn"
nVALORIN == <<86, 65, 76, 79, 82, 73, 78>>                    \* "VALORIN"
nvalorin == <<118, 97, 108, 111, 114, 105, 110>>              \* "valorin"

\* A second roster: alliance 1 also has a member "Valorn".
Roster2 == Roster \o <<PlayerRow(1, nValorn)>>

ResolveNames == {nValorin, nValor1n, nVALORIN, nvalorin, nCd, nEf, nZz}

\* The acceptance thresholds tried, in hundredths.
ResolveThresholds == {FUZZY_MATCH_THRESHOLD, 95}

ResolveReturned(op, a, n, threshold, player) ==
    /\ calls' = calls + 1
    /\ last' = [op |-> op, exc |-> "none", ret |-> player]
    /\ hist' = Append(hist, [kind |-> op, key |-> <<a, n>>, val |-> player,
                             at |-> threshold])
    /\ UNCHANGED <<db, tx, new, dirty, inactive, results, wvars>>

FuzzyMatchPlayerCall ==
    /\ calls < MaxResolveCalls
    /\ \E a \in UpsertAlliances, n \in ResolveNames, threshold \in ResolveThresholds :
           ResolveReturned("fuzzy_match_player", a, n, threshold,
                           FuzzyMatchPlayer(S, a, n, threshold))

FindPlayerWithFuzzyFallbackCall ==
    /\ calls < MaxResolveCalls
    /\ \E a \in UpsertAlliances, n \in ResolveNames :
           ResolveReturned("find_player_with_fuzzy_fallback", a, n,
                           FUZZY_MATCH_THRESHOLD, FindPlayerWithFuzzyFallback(S, a, n))

InitResolve ==
    \E roster \in {Roster, Roster2} :
        InitOn([EmptyTables EXCEPT !["players"] = roster])

NextResolve == FuzzyMatchPlayerCall \/ FindPlayerWithFuzzyFallbackCall

SpecResolve == InitResolve /\ [][NextResolve]_vars

\* The members of alliance a in the roster.
MembersOf(a) == {i \in DOMAIN db["players"] : db["players"][i].alliance_id = a}

\* The case-insensitive similarity ratio of member i's name and n.
RatioNoCase(i, n) == Ratio(Lower(db["players"][i].name), Lower(n))

\* Member i is the one with the highest case-insensitive ratio to n.
HighestNoCase(a, i, n) ==
    \A j \in MembersOf(a) :
        j = i \/ ScoredLess(RatioNoCase(j, n), <<>>, RatioNoCase(i, n), <<>>)

\* What the fuzzy step is to return for n at the threshold.
FuzzyExpected(a, n, threshold) ==
    {i \in MembersOf(a) :
        RatioAtLeast(RatioNoCase(i, n), threshold) /\ HighestNoCase(a, i, n)}

\* C12: after an exact miss the resolver returns the member of the alliance
\* with the highest case-insensitive ratio to the name when that ratio
\* reaches the threshold, and not-found when no member reaches it; an exact
\* hit is returned as it is.
C12_FuzzyPicksHighestNoCase ==
    \A k \in DOMAIN hist :
        LET h == hist[k]
            exact == {i \in MembersOf(h.key[1]) : db["players"][i].name = h.key[2]}
            exp == FuzzyExpected(h.key[1], h.key[2], h.at)
        IN  /\ (h.kind = "find_player_with_fuzzy_fallback" /\ exact # {})
                   => h.val \in exact
            /\ (h.kind \in {"fuzzy_match_player", "find_player_with_fuzzy_fallback"}
                /\ exact = {})
                   => IF exp = {} THEN h.val = None ELSE h.val \in exp

(***************************************************************************)
(* Type detection: detect_screenshot_type and the filename heuristic.      *)
(* A filename is the set of the patterns that occur in it, a confidence is *)
(* given in hundredths, an AI answer is [ok, type, confidence].            *)
(***************************************************************************)

Heuristic(type, confidence) ==
    [type |-> type, confidence |-> confidence, method |-> "heuristic"]

\* _detect_type_heuristic
DetectTypeHeuristic(filename) ==
    IF "alliance" \in filename /\ "member" \in filename
    THEN Heuristic("alliance_members", 85)
    ELSE IF "bear" \in filename
    THEN IF "overview" \in filename \/ "success" \in filename
         THEN Heuristic("bear_overview", 85)
         ELSE IF "damage" \in filename \/ "reward" \in filename
         THEN Heuristic("bear_damage", 85)
         ELSE Heuristic("bear_damage", 60)
    ELSE IF "foundry" \in filename
    THEN IF "signup" \in filename \/ "combatant" \in filename
         THEN Heuristic("foundry_signup", 85)
         ELSE IF "result" \in filename \/ "arsenal" \in filename
         THEN Heuristic("foundry_result", 85)
         ELSE Heuristic("foundry_result", 60)
    ELSE IF ("ac" \in filename \/ "championship" \in filename)
            /\ ("signup" \in filename \/ "lane" \in filename)
    THEN Heuristic("ac_signup", 85)
    ELSE IF "contribution" \in filename
    THEN Heuristic("contribution", 85)
    ELSE IF "alliance" \in filename /\ "power" \in filename
    THEN Heuristic("alliance_power", 85)
    ELSE Heuristic("unknown", 10)

\* detect_screenshot_type: ai.ok says that the request and the parsing of
\* its answer raised nothing; a missing type ("") is "unknown", a missing
\* confidence 0.8.  A failure is logged with extra={"filename": ...}.
DetectScreenshotType(filename, ai) ==
    Only({
        IF ai.ok
        THEN Only({
                 IF confidence < 70 /\ heuristic_result.confidence > 80
                 THEN [exc |-> "none", ret |-> heuristic_result]
                 ELSE [exc |-> "none",
                       ret |-> [type |-> IF ai.type = "" THEN "unknown" ELSE ai.type,
                                confidence |-> confidence, method |-> "ai"]] :
                 confidence \in {IF ai.confidence = None THEN 80 ELSE ai.confidence}})
        ELSE IF LogWithFilename("error") # "none"
        THEN [exc |-> LogWithFilename("error"), ret |-> None]
        ELSE [exc |-> "none", ret |-> heuristic_result] :
        heuristic_result \in {DetectTypeHeuristic(filename)}})

(***************************************************************************)
(* Detection specification: files of several names, AI answers of several  *)
(* types and confidences, AI failures.                                     *)
(***************************************************************************)
MaxDetectCalls == 2

Filenames ==
    {{}, {"bear"}, {"bear", "damage"}, {"foundry", "signup"},
     {"alliance", "member"}, {"contribution"}}

AiAnswers ==
    [ok : {TRUE}, type : {"bear_overview", "selfie", ""},
     confidence : {50, 69, 70, 95, None}]
    \cup {[ok |-> FALSE, type |-> "", confidence |-> None]}

DetectScreenshotTypeCall ==
    /\ calls < MaxDetectCalls
    /\ \E filename \in Filenames, ai \in AiAnswers :
       \E r \in {DetectScreenshotType(filename, ai)} :
           /\ calls' = calls + 1
           /\ last' = [op |-> "detect_screenshot_type", exc |-> r.exc, ret |-> r.ret]
           /\ hist' = Append(hist, [kind |-> "detect", key |-> filename, val |-> ai,
                                    at |-> calls])
           /\ UNCHANGED <<db, tx, new, dirty, inactive, results, wvars>>

InitDetect == InitOn(RosterDb)

NextDetect == DetectScreenshotTypeCall

SpecDetect == InitDetect /\ [][NextDetect]_vars

\* The AI answer of the last call as the claim reads it.
AiResult(ai) ==
    [type |-> IF ai.type = "" THEN "unknown" ELSE ai.type,
     confidence |-> IF ai.confidence = None THEN 80 ELSE ai.confidence,
     method |-> "ai"]

\* C13: the last detect_screenshot_type call returned the heuristic result
\* when the AI answered with confidence < 0.7 and the heuristic's confidence
\* is > 0.8, the AI result in every other case where the AI answered, and the
\* heuristic result whenever the AI call failed.
C13_Arbitration ==
    last.op = "detect_screenshot_type" =>
        LET h == hist[Len(hist)]
            heur == DetectTypeHeuristic(h.key)
        IN  /\ last.exc = "none"
            /\ last.ret = IF ~h.val.ok THEN heur
                          ELSE IF AiResult(h.val).confidence < 70 /\ heur.confidence > 80
                          THEN heur
                          ELSE AiResult(h.val)

(***************************************************************************)
(* Timestamps.  A naive datetime is a number of whole hours on the wall    *)
(* clock of the screenshots' timezone; an aware one is [t, tzinfo].  The   *)
(* configured zone (settings.screenshot_timezone) is five hours behind UTC *)
(* and four during daylight saving time, which in the model's calendar     *)
(* runs from Tuesday 07:00 UTC to Wednesday 06:00 UTC of the second week.  *)
(***************************************************************************)
StdOffset == 0 - 5
DstOffset == 0 - 4
DstBeginsUtc == 8 * 24 + 7
DstEndsUtc == 9 * 24 + 6

\* utcoffset of the zone at a UTC instant.
OffsetAt(u) == IF DstBeginsUtc <= u /\ u < DstEndsUtc THEN DstOffset ELSE StdOffset

\* The offsets under which the wall-clock time naive_dt exists.
PossibleOffsets(naive_dt) == {o \in {StdOffset, DstOffset} : OffsetAt(naive_dt - o) = o}

\* pytz localize(naive_dt) with is_dst=False: the one offset that fits; for
\* a time that occurs twice the standard one; for a time that never
\* happened the offset six hours earlier.
RECURSIVE LocalizeOffset(_)
LocalizeOffset(naive_dt) ==
    IF Cardinality(PossibleOffsets(naive_dt)) = 1
    THEN Only(PossibleOffsets(naive_dt))
    ELSE IF PossibleOffsets(naive_dt) = {}
    THEN LocalizeOffset(naive_dt - 6)
    ELSE StdOffset

\* Faulty variant: the naive time is stamped as UTC without conversion.
LocalizeAndConvertUtc_AsUtc(naive_dt) ==
    [t |-> naive_dt, tzinfo |-> "UTC"]

\* _localize_and_convert_utc
LocalizeAndConvertUtc(naive_dt) ==
    [t |-> naive_dt - LocalizeOffset(naive_dt), tzinfo |-> "UTC"]

\* A filename stamp or EXIF DateTime that is present but does not parse.
Invalid == 0 - 2

\* _extract_from_filename: no match and an impossible date both give None.
ExtractFromFilename(image) ==
    IF image.stamp \in {None, Invalid} THEN None ELSE image.stamp

\* _extract_from_exif: a missing tag and an unparseable value both give None.
ExtractFromExif(image) ==
    IF image.exif \in {None, Invalid} THEN None ELSE image.exif

\* extract_timestamp: filename first, then EXIF, else None ([t |-> None]).
ExtractTimestamp(image) ==
    IF ExtractFromFilename(image) # None
    THEN LocalizeAndConvertUtc(ExtractFromFilename(image))
    ELSE IF ExtractFromExif(image) # None
    THEN LocalizeAndConvertUtc(ExtractFromExif(image))
    ELSE [t |-> None, tzinfo |-> "none"]

\* process_screenshot, timestamp: extract_timestamp or datetime.now(pytz.UTC).
ResolveTimestamp(image, now) ==
    IF ExtractTimestamp(image).t # None THEN ExtractTimestamp(image)
    ELSE [t |-> now, tzinfo |-> "UTC"]

(***************************************************************************)
(* process_screenshot without a type override: detection, timestamp, then  *)
(* the branch of the detected type.                                        *)
(***************************************************************************)
\* The routine the try block of process_screenshot dispatches to.
Routine(screenshot_type) ==
    IF screenshot_type \in KnownTypes THEN "_process_" \o screenshot_type ELSE "none"

\* Detection raises outside the try block; nothing after it runs.
ProcessScreenshotFile(W, alliance_id, image, ai, now, data, pick, src) ==
    Only({
        IF d.exc # "none" THEN [w |-> W, exc |-> d.exc, result |-> None]
        ELSE ProcessScreenshot(W, alliance_id, d.ret.type, data,
                               ResolveTimestamp(image, now).t, pick, src) :
        d \in {DetectScreenshotType(image.name, ai)}})

\* What the extractor reads off a screenshot taken for a type.
ExtractedData(screenshot_type) ==
    CASE screenshot_type = "alliance_members" -> BatchMemberData
      [] screenshot_type = "bear_damage" -> BatchBearData
      [] screenshot_type = "foundry_signup" -> BatchSignupData
      [] screenshot_type = "foundry_result" -> BatchResultData
      [] screenshot_type = "ac_signup" -> {AcData(<<AcRow(nValorin, 50)>>)}
      [] screenshot_type = "contribution" -> {<<ContribRow(nValorin, 10)>>}
      [] screenshot_type = "alliance_power" -> BatchPowerData
      [] screenshot_type = "bear_overview" -> BatchOverviewData
      [] OTHER -> {None}

MaxProcessCalls == 2

\* One call of process_screenshot(session, image_path) on the caller's
\* session.
ProcessScreenshotCall(Images, Ais, Nows) ==
    /\ calls < MaxProcessCalls
    /\ \E image \in Images, ai \in Ais, now \in Nows :
       \E d \in {DetectScreenshotType(image.name, ai)} :
       \E ts \in {ResolveTimestamp(image, now)} :
       \E type \in {IF d.exc = "none" THEN d.ret.type ELSE "error"} :
       \E data \in ExtractedData(type) :
       \E pick \in FilePicks(S, type, data, ts.t) :
       \E out \in {ProcessScreenshotFile(S, 1, image, ai, now, data, pick, calls + 1)} :
           /\ db' = out.w.db
           /\ tx' = out.w.tx
           /\ new' = out.w.new
           /\ dirty' = out.w.dirty
           /\ inactive' = out.w.inactive
           /\ calls' = calls + 1
           /\ last' = [op |-> "process_screenshot", exc |-> out.exc, ret |-> out.result]
           /\ hist' = Append(hist,
                  [kind |-> "screenshot", key |-> image, val |-> ai, at |-> ts,
                   now |-> now, detected |-> d.exc = "none", type |-> type,
                   routine |-> IF d.exc = "none" THEN Routine(type) ELSE "none",
                   before |-> db])
           /\ UNCHANGED <<results, wvars>>

NoStamp(name) == [name |-> name, stamp |-> None, exif |-> None]

ProcessImages ==
    {NoStamp({}), NoStamp({"bear"}), NoStamp({"bear", "damage"}),
     NoStamp({"alliance", "power"})}

ProcessAis ==
    [ok : {TRUE}, type : {"bear_overview", "alliance_power", "selfie", "unknown"},
     confidence : {50, 95}]
    \cup {[ok |-> FALSE, type |-> "", confidence |-> None]}

ProcessDetected == ProcessScreenshotCall(ProcessImages, ProcessAis, UploadTimes)

InitProcess == InitOn(RosterDb)

NextProcess == ProcessDetected

SpecProcess == InitProcess /\ [][NextProcess]_vars

\* C14: the last process_screenshot call, made for a file whose detected
\* type is outside the eight supported types, invoked no routine, left the
\* database as it was, and returned a result with success=false and
\* records_saved=0.
C14_UnknownIsSkippedAndReported ==
    (/\ last.op = "process_screenshot"
     /\ hist[Len(hist)].detected
     /\ hist[Len(hist)].type \notin KnownTypes)
        => /\ hist[Len(hist)].routine = "none"
           /\ db = hist[Len(hist)].before
           /\ last.exc = "none"
           /\ last.ret.success = FALSE
           /\ last.ret.records_saved = 0

\* C15: in the last process_screenshot call, when the AI's type and the
\* heuristic's type differ, the AI's confidence is below 0.7 and the
\* heuristic's at most 0.8, the file's type is "unknown" and no routine ran.
C15_UnconfidentDisagreementIsUnknown ==
    (/\ last.op = "process_screenshot"
     /\ hist[Len(hist)].val.ok
     /\ AiResult(hist[Len(hist)].val).type # DetectTypeHeuristic(hist[Len(hist)].key.name).type
     /\ AiResult(hist[Len(hist)].val).confidence < 70
     /\ DetectTypeHeuristic(hist[Len(hist)].key.name).confidence <= 80)
        => /\ hist[Len(hist)].type = "unknown"
           /\ hist[Len(hist)].routine = "none"

(***************************************************************************)
(* Timestamp specification: alliance-power screenshots with and without a  *)
(* filename stamp and an EXIF time, before, in and after daylight saving.  *)
(***************************************************************************)
\* Wall-clock hours: standard time, the skipped hour, daylight saving time,
\* the repeated hour, standard time again.
NaiveTimes == {190, 194, 200, 217, 230}

TimestampImages ==
    [name : {{"alliance", "power"}}, stamp : {None, Invalid} \cup NaiveTimes,
     exif : {None, Invalid, 200, 217}]

TimestampAis == {[ok |-> TRUE, type |-> "alliance_power", confidence |-> 95]}

\* Thursday 00:00 UTC of the second week.
TimestampNows == {10 * 24}

ProcessStamped == ProcessScreenshotCall(TimestampImages, TimestampAis, TimestampNows)

InitTimestamp == InitOn(RosterDb)

NextTimestamp == ProcessStamped

SpecTimestamp == InitTimestamp /\ [][NextTimestamp]_vars

\* The wall clock of the configured zone at the UTC instant u.
WallClock(u) == u + OffsetAt(u)

\* u is naive_dt read in the configured zone and converted once: the zone's
\* wall clock shows naive_dt at u, or, for a wall-clock time the zone skips,
\* u is naive_dt moved by one of the zone's offsets.
ConvertedOnce(u, naive_dt) ==
    IF \E v \in (naive_dt - 12)..(naive_dt + 12) : WallClock(v) = naive_dt
    THEN WallClock(u) = naive_dt
    ELSE naive_dt - u \in {StdOffset, DstOffset}

MaxPipelineFiles == 2

PipelineImages == {NoStamp({"bear"}), NoStamp({"alliance", "power"})}

PipelineAis ==
    [ok : {TRUE}, type : {"bear_overview", "alliance_power", "selfie"}, confidence : {95}]
    \cup {[ok |-> FALSE, type |-> "", confidence |-> None]}

Running == last.op = "process_screenshot" /\ ~last.ret.done

At(state) == Running /\ last.ret.state = state

\* The running call moves to a state, or ends with exception exc (failed:
\* it ended without saving).
Enter(state, locals) ==
    /\ last' = [last EXCEPT !.ret = [locals EXCEPT !.state = state]]
    /\ hist' = Append(hist, [kind |-> "state", key |-> calls, val |-> state])

\* Faulty variant: the exception is noted and the call goes on.
End_GoesOn(exc, failed) ==
    /\ last' = [last EXCEPT !.exc = exc, !.ret.failed = failed]
    /\ hist' = hist

End(exc, failed) ==
    /\ last' = [last EXCEPT !.exc = exc, !.ret.done = TRUE, !.ret.failed = failed]
    /\ hist' = hist

\* The upload endpoint has stored a file and calls process_screenshot.
ReceiveFile ==
    /\ calls < MaxPipelineFiles
    /\ ~Running
    /\ \E image \in PipelineImages, ai \in PipelineAis, now \in UploadTimes :
           last' = [op |-> "process_screenshot", exc |-> "none",
                    ret |-> [state |-> "received", done |-> FALSE, failed |-> FALSE,
                             image |-> image, ai |-> ai, now |-> now, type |-> "",
                             timestamp |-> None, data |-> None]]
    /\ calls' = calls + 1
    /\ hist' = Append(hist, [kind |-> "state", key |-> calls + 1, val |-> "received"])
    /\ UNCHANGED <<db, tx, new, dirty, inactive, results, wvars>>

\* detect_screenshot_type; an exception leaves process_screenshot.
DetectTypeStep ==
    /\ At("received")
    /\ \E d \in {DetectScreenshotType(last.ret.image.name, last.ret.ai)} :
           IF d.exc # "none" THEN End(d.exc, TRUE)
           ELSE Enter("type-detected", [last.ret EXCEPT !.type = d.ret.type])
    /\ UNCHANGED <<db, tx, new, dirty, inactive, calls, results, wvars>>

\* extract_timestamp, or the current time.
ResolveTimestampStep ==
    /\ At("type-detected")
    /\ Enter("timestamp-resolved",
             [last.ret EXCEPT !.timestamp = ResolveTimestamp(last.ret.image, last.ret.now).t])
    /\ UNCHANGED <<db, tx, new, dirty, inactive, calls, results, wvars>>

\* The exception that leaves process_screenshot when its try block raised.
Handled == IF LogWithFilename("error") # "none" THEN LogWithFilename("error") ELSE "none"

\* The extractor call of the type's routine: it returns the payload or
\* raises; an unsupported type has no routine and the call ends.
ExtractStep ==
    /\ At("timestamp-resolved")
    /\ IF last.ret.type \notin KnownTypes
       THEN End(ProcessScreenshot(S, 1, last.ret.type, None, last.ret.timestamp,
                                  None, calls).exc, TRUE)
       ELSE \E ok \in BOOLEAN, data \in ExtractedData(last.ret.type) :
                IF ok THEN Enter("extracted", [last.ret EXCEPT !.data = data])
                ELSE End(Handled, TRUE)
    /\ UNCHANGED <<db, tx, new, dirty, inactive, calls, results, wvars>>

\* The save routine of the type, and the rest of process_screenshot.
PersistStep ==
    /\ At("extracted")
    /\ \E pick \in FilePicks(S, last.ret.type, last.ret.data, last.ret.timestamp) :
       \E b \in {ProcessByType(S, 1, last.ret.type, last.ret.data,
                               last.ret.timestamp, pick, calls)} :
       \E out \in {ProcessScreenshot(S, 1, last.ret.type, last.ret.data,
                                     last.ret.timestamp, pick, calls)} :
           /\ db' = out.w.db
           /\ tx' = out.w.tx
           /\ new' = out.w.new
           /\ dirty' = out.w.dirty
           /\ inactive' = out.w.inactive
           /\ IF b.exc # "none"
              THEN End(out.exc, TRUE)
              ELSE /\ last' = [last EXCEPT !.exc = out.exc, !.ret.done = TRUE,
                                           !.ret.state = "persisted"]
                   /\ hist' = Append(hist, [kind |-> "state", key |-> calls,
                                            val |-> "persisted"])
    /\ UNCHANGED <<calls, results, wvars>>

InitPipeline == InitOn(RosterDb)

NextPipeline ==
    \/ ReceiveFile
    \/ DetectTypeStep
    \/ ResolveTimestampStep
    \/ ExtractStep
    \/ PersistStep

SpecPipeline == InitPipeline /\ [][NextPipeline]_vars

\* The state of the file being processed ("none" before the first file).
FileState == IF last.op = "process_screenshot" THEN last.ret.state ELSE "none"

Stage(state) ==
    CASE state = "received" -> 1
      [] state = "type-detected" -> 2
      [] state = "timestamp-resolved" -> 3
      [] state = "extracted" -> 4
      [] state = "persisted" -> 5
      [] OTHER -> 0

\* C16: a file enters the states received, type-detected,
\* timestamp-resolved, extracted, persisted one after the other, never an
\* earlier or the same one again and never skipping one; a file whose
\* processing has failed or ended enters no further state; the next state
\* after that is the next file's received.
C16_StatesInOrder ==
    [][\/ (FileState' = FileState /\ calls' = calls)
       \/ (FileState' = "received" /\ calls' = calls + 1 /\ ~Running)
       \/ (/\ Running /\ ~last.ret.failed /\ last.exc = "none"
           /\ calls' = calls
           /\ Stage(FileState') = Stage(FileState) + 1)]_vars

\* The states file number k entered, in order.
StatesEntered(k) ==
    LET e == SelectSeq(hist, LAMBDA h : h.key = k) IN [i \in DOMAIN e |-> e[i].val]

\* The first file got no further than its timestamp; the second entered all
\* five states and its row is stored.
C16_Witness ==
    /\ StatesEntered(1) = <<"received", "type-detected", "timestamp-resolved">>
    /\ StatesEntered(2) = <<"received", "type-detected", "timestamp-resolved",
                            "extracted", "persisted">>
    /\ Len(db["alliance_power_snapshots"]) = 1

(***************************************************************************)
(* Rate-limit specification: the loop of upload_screenshots with its       *)
(* delay.  last holds the request: the number of files and the setting     *)
(* ai_ocr_enabled.  An AI answer says whether the request was sent at all. *)
(***************************************************************************)
ai_ocr_rate_limit_delay == 12

RateAis ==
    [ok : {TRUE}, sent : {TRUE}, type : {"bear_overview", "alliance_power"},
     confidence : {95}]
    \cup [ok : {FALSE}, sent : BOOLEAN, type : {""}, confidence : {None}]

\* One pass of the loop of upload_screenshots, delay included: the delay
\* follows a normal return of process_screenshot.
ProcessUploadedFile ==
    /\ last.op = "request"
    /\ Len(results) < last.ret.total_files
    /\ \E image \in PipelineImages, ai \in RateAis, now \in UploadTimes :
       \E d \in {DetectScreenshotType(image.name, ai)} :
       \E type \in {IF d.exc = "none" THEN d.ret.type ELSE "error"} :
       \E data \in ExtractedData(type) :
       \E pick \in FilePicks(S, type, data, ResolveTimestamp(image, now).t) :
       \E out \in {ProcessScreenshotFile(S, 1, image, ai, now, data, pick,
                                         Len(results) + 1)} :
       \E is_last_file \in {Len(results) + 1 = last.ret.total_files} :
           /\ db' = out.w.db
           /\ tx' = out.w.tx
           /\ new' = out.w.new
           /\ dirty' = out.w.dirty
           /\ inactive' = out.w.inactive
           /\ results' = Append(results,
                  IF out.exc = "none" THEN out.result
                  ELSE [type |-> "error", success |-> FALSE, records_saved |-> 0])
           /\ hist' = Append(hist,
                  [kind |-> "file", key |-> Len(results) + 1, val |-> type,
                   ai_call |-> ai.sent \/ (d.exc = "none" /\ type \in KnownTypes
                                            /\ type # "bear_overview"),
                   slept |-> IF /\ out.exc = "none"
                                /\ last.ret.ai_ocr_enabled
                                /\ out.result.type # "bear_overview"
                                /\ ~is_last_file
                             THEN ai_ocr_rate_limit_delay ELSE 0])
           /\ UNCHANGED <<calls, last, wvars>>

InitRate ==
    /\ db = RosterDb
    /\ tx = RosterDb
    /\ new = EmptyTables
    /\ dirty = NoDirty
    /\ inactive = FALSE
    /\ calls = 0
    /\ hist = <<>>
    /\ results = <<>>
    /\ job_queue = <<>>
    /\ stop_event = FALSE
    /\ worker = [running |-> FALSE, stopping |-> FALSE, thread |-> 0, threads |-> <<>>,
                 enqueued |-> 0, late |-> FALSE]
    /\ uploads = <<>>
    /\ last \in {[op |-> "request", exc |-> "none",
                  ret |-> [total_files |-> n, ai_ocr_enabled |-> e]] :
                 n \in 1..MaxFiles, e \in BOOLEAN}

NextRate == ProcessUploadedFile

SpecRate == InitRate /\ [][NextRate]_vars

\* C18: when two successive files of the batch each made an AI call, the
\* configured delay was applied after the first of them; and no delay was
\* applied after the batch's final file.
C18_DelayBetweenAiFiles ==
    /\ \A i \in DOMAIN hist :
           (i + 1 \in DOMAIN hist /\ hist[i].ai_call /\ hist[i + 1].ai_call)
               => hist[i].slept = ai_ocr_rate_limit_delay
    /\ \A i \in DOMAIN hist :
           i = last.ret.total_files => hist[i].slept = 0

(***************************************************************************)
(* Event-header specification: sequential find_or_create_foundry_event and *)
(* find_or_create_ac_event calls on one session, and the caller's commit.  *)
(***************************************************************************)
MaxEventCalls == 2

\* (alliance, legion, event_date): two legions of a Sunday, and the next Sunday.
FoundryKeys == {<<1, 1, 144>>, <<1, 2, 144>>, <<1, 1, 312>>}

\* (alliance, week_start_date)
AcKeys == {<<1, 168>>, <<2, 168>>}

FindOrCreateFoundryEventCall ==
    /\ calls < MaxEventCalls
    /\ \E key \in FoundryKeys, total_troop_power \in {None, 0, 10},
          people \in {<<None, None>>, <<30, 25>>} :
       \E r \in {FindOrCreateFoundryEvent(S, key[1], key[2], key[3], total_troop_power,
                                          people[1], people[2], 0)} :
           /\ Returned("find_or_create_foundry_event", r)
           /\ hist' = Append(hist,
                  [kind |-> "foundry_event", key |-> key, at |-> calls,
                   val |-> [total_troop_power |-> total_troop_power,
                            max_participants |-> people[1],
                            actual_participants |-> people[2]]])
           /\ UNCHANGED <<results, wvars>>

FindOrCreateAcEventCall ==
    /\ calls < MaxEventCalls
    /\ \E key \in AcKeys, total_registered \in {None, 0, 10}, total_power \in {None, 50} :
       \E r \in {FindOrCreateAcEvent(S, key[1], key[2], total_registered, total_power, 0)} :
           /\ Returned("find_or_create_ac_event", r)
           /\ hist' = Append(hist,
                  [kind |-> "ac_event", key |-> key, at |-> calls,
                   val |-> [total_registered |-> total_registered,
                            total_power |-> total_power]])
           /\ UNCHANGED <<results, wvars>>

\* The caller's session.commit() after its rows.
CommitCall ==
    /\ last.op \in {"find_or_create_foundry_event", "find_or_create_ac_event"}
    /\ \E c \in {Commit(S)} :
           /\ db' = c.w.db
           /\ tx' = c.w.tx
           /\ new' = c.w.new
           /\ dirty' = c.w.dirty
           /\ inactive' = c.w.inactive
           /\ last' = [op |-> "commit", exc |-> c.exc, ret |-> None]
    /\ UNCHANGED <<calls, hist, results, wvars>>

InitEvents == InitOn(RosterDb)

NextEvents ==
    \/ FindOrCreateFoundryEventCall
    \/ FindOrCreateAcEventCall
    \/ CommitCall

SpecEvents == InitEvents /\ [][NextEvents]_vars

\* The key of an event row.
EventKey(t, row) ==
    IF t = "foundry_events" THEN <<row.alliance_id, row.legion_number, row.event_date>>
    ELSE <<row.alliance_id, row.week_start_date>>

\* The value of statistic f most recently supplied non-null in o (None: never).
LastNonNull(o, f) ==
    IF \A i \in DOMAIN o : o[i].val[f] = None THEN None
    ELSE o[CHOOSE i \in DOMAIN o :
               /\ o[i].val[f] # None
               /\ \A j \in DOMAIN o : j > i => o[j].val[f] = None].val[f]

\* The events of table t, supplied through calls of kind, as the session
\* holds them: one row per key, every statistic the last non-null supplied.
HeaderOk(t, kind, stats) ==
    LET rows == Flushed(S)[t] IN
    /\ \A i, j \in DOMAIN rows : EventKey(t, rows[i]) = EventKey(t, rows[j]) => i = j
    /\ \A i, j \in DOMAIN db[t] : EventKey(t, db[t][i]) = EventKey(t, db[t][j]) => i = j
    /\ \A key \in KeysOf(kind) :
           \E i \in DOMAIN rows :
               /\ EventKey(t, rows[i]) = key
               /\ \A f \in stats : rows[i][f] = LastNonNull(ObsOf(kind, key), f)
    /\ last.op = "commit" => db[t] = rows

\* C19: there is at most one foundry event per (alliance, legion,
\* event_date) and one AC event per (alliance, week_start_date); each of its
\* header statistics is the last non-null value a call supplied for it, so a
\* call supplying None for a statistic left it as it was.
C19_EventHeaders ==
    /\ HeaderOk("foundry_events", "foundry_event",
                {"total_troop_power", "max_participants", "actual_participants"})
    /\ HeaderOk("ac_events", "ac_event", {"total_registered", "total_power"})

\* An AC event was created with 10 registered and total power 50; the next
\* call supplied 0 registered and no power: the committed row holds 0 and 50.
C19_Witness ==
    /\ last.op = "commit"
    /\ \E key \in KeysOf("ac_event") :
           LET o == ObsOf("ac_event", key) IN
           /\ Len(o) = 2
           /\ o[1].val = [total_registered |-> 10, total_power |-> 50]
           /\ o[2].val = [total_registered |-> 0, total_power |-> None]
           /\ \E i \in DOMAIN db["ac_events"] :
                  /\ EventKey("ac_events", db["ac_events"][i]) = key
                  /\ db["ac_events"][i].total_registered = 0
                  /\ db["ac_events"][i].total_power = 50

(***************************************************************************)
(* Worker specification: start_worker and stop_worker called one after the *)
(* other by the application, clients enqueueing pipeline jobs, and the     *)
(* steps of every worker thread that was started.  A job is the number of  *)
(* its put on the queue and its number of samples; hist lists the jobs in  *)
(* the order the threads took them.  A thread's job is told once           *)
(* stop_worker was called while a sample of it was processed, worker.late  *)
(* records that a sample of a told job was started.                        *)
(***************************************************************************)
MaxJobs == 2

MaxStarts == 2

svars == <<db, tx, new, dirty, inactive, last, results, uploads>>

\* Faulty variant: the newest job is taken first.
QueueGet_Newest(q) == [job |-> q[Len(q)], rest |-> SubSeq(q, 1, Len(q) - 1)]

\* queue.Queue.get on a queue that holds a job.
QueueGet(q) == [job |-> Head(q), rest |-> Tail(q)]

\* The threads start_worker has started and whose loop has not returned.
Alive == {th \in DOMAIN worker.threads : worker.threads[th].pc # "exited"}

\* The threads inside process_pipeline_job.
InJob == {th \in DOMAIN worker.threads : worker.threads[th].pc \in {"job", "sample"}}

\* Thread th moves to pc.
Goto(th, pc) == [worker EXCEPT !.threads[th].pc = pc]

NewThread ==
    [pc |-> "loop", job |-> 0, left |-> 0, brk |-> FALSE, job_told |-> FALSE]

\* Faulty variant: a second call starts nothing while a thread is alive.
StartWorker_OnlyWhenNoneAlive ==
    /\ Len(worker.threads) < MaxStarts
    /\ ~worker.stopping
    /\ ~worker.running
    /\ Alive = {}
    /\ stop_event' = FALSE
    /\ worker' = [worker EXCEPT !.running = TRUE,
                                !.thread = Len(worker.threads) + 1,
                                !.threads = Append(@, NewThread)]
    /\ UNCHANGED <<svars, calls, hist, job_queue>>

\* start_worker: nothing when _state.running; else a new thread, the stop
\* event cleared.
StartWorker ==
    /\ Len(worker.threads) < MaxStarts
    /\ ~worker.stopping
    /\ ~worker.running
    /\ stop_event' = FALSE
    /\ worker' = [worker EXCEPT !.running = TRUE,
                                !.thread = Len(worker.threads) + 1,
                                !.threads = Append(@, NewThread)]
    /\ UNCHANGED <<svars, calls, hist, job_queue>>

\* enqueue_pipeline_job, called for POST /pipeline/enqueue: a manifest of
\* two samples.
EnqueuePipelineJob ==
    /\ worker.enqueued < MaxJobs
    /\ job_queue' = Append(job_queue, [id |-> calls + 1, samples |-> 2])
    /\ calls' = calls + 1
    /\ worker' = [worker EXCEPT !.enqueued = @ + 1]
    /\ UNCHANGED <<svars, hist, stop_event>>

\* _worker_loop: while not _stop_event.is_set()
WorkerLoop(th) ==
    /\ worker.threads[th].pc = "loop"
    /\ worker' = Goto(th, IF stop_event THEN "exited" ELSE "get")
    /\ UNCHANGED <<svars, calls, hist, job_queue, stop_event>>

\* _job_queue.get(timeout=poll_interval) returns a job; process_pipeline_job
\* loads its samples.
WorkerGet(th) ==
    /\ worker.threads[th].pc = "get"
    /\ job_queue # <<>>
    /\ job_queue' = QueueGet(job_queue).rest
    /\ worker' = [worker EXCEPT !.threads[th] =
                      [@ EXCEPT !.pc = "job", !.job = QueueGet(job_queue).job.id,
                                !.left = QueueGet(job_queue).job.samples,
                                !.brk = FALSE, !.job_told = FALSE]]
    /\ hist' = Append(hist, [kind |-> "start", key |-> QueueGet(job_queue).job.id])
    /\ UNCHANGED <<svars, calls, stop_event>>

\* _job_queue.get raises queue.Empty: heartbeat, continue.
WorkerTimeout(th) ==
    /\ worker.threads[th].pc = "get"
    /\ job_queue = <<>>
    /\ worker' = Goto(th, "loop")
    /\ UNCHANGED <<svars, calls, hist, job_queue, stop_event>>

\* process_pipeline_job: process_many starts on the next sample.
WorkerSample(th) ==
    /\ worker.threads[th].pc = "job"
    /\ worker.threads[th].left > 0
    /\ ~worker.threads[th].brk
    /\ worker' = [worker EXCEPT !.threads[th].pc = "sample",
                                !.late = @ \/ worker.threads[th].job_told]
    /\ UNCHANGED <<svars, calls, hist, job_queue, stop_event>>

\* process_pipeline_job: the sample's result is recorded; break when the
\* stop event is set.
WorkerSampleDone(th) ==
    /\ worker.threads[th].pc = "sample"
    /\ worker' = [worker EXCEPT !.threads[th].pc = "job",
                                !.threads[th].left = @ - 1,
                                !.threads[th].brk = stop_event]
    /\ UNCHANGED <<svars, calls, hist, job_queue, stop_event>>

\* process_pipeline_job returned or raised; task_done.
WorkerFinish(th) ==
    /\ worker.threads[th].pc = "job"
    /\ worker.threads[th].left = 0 \/ worker.threads[th].brk
    /\ worker' = [worker EXCEPT !.threads[th] =
                      [@ EXCEPT !.pc = "loop", !.job = 0, !.left = 0, !.brk = FALSE,
                                !.job_told = FALSE]]
    /\ UNCHANGED <<svars, calls, hist, job_queue, stop_event>>

\* One step of worker thread th.
ThreadStep(th) ==
    \/ WorkerLoop(th)
    \/ WorkerGet(th)
    \/ WorkerTimeout(th)
    \/ WorkerSample(th)
    \/ WorkerSampleDone(th)
    \/ WorkerFinish(th)

\* stop_worker sets the event and puts its sentinel job (no samples).
StopWorker ==
    /\ worker.running
    /\ ~worker.stopping
    /\ stop_event' = TRUE
    /\ job_queue' = Append(job_queue, [id |-> calls + 1, samples |-> 0])
    /\ calls' = calls + 1
    /\ worker' = [worker EXCEPT
           !.stopping = TRUE,
           !.threads = [th \in DOMAIN @ |->
               [@[th] EXCEPT !.job_told = @ \/ worker.threads[th].pc = "sample"]]]
    /\ UNCHANGED <<svars, hist>>

\* stop_worker: thread.join(timeout=5) returned, the thread gone or not.
StopWorkerJoined ==
    /\ worker.stopping
    /\ worker' = [worker EXCEPT !.running = FALSE, !.stopping = FALSE, !.thread = 0]
    /\ UNCHANGED <<svars, calls, hist, job_queue, stop_event>>

InitWorker ==
    /\ db = EmptyTables
    /\ tx = EmptyTables
    /\ new = EmptyTables
    /\ dirty = NoDirty
    /\ inactive = FALSE
    /\ calls = 0
    /\ hist = <<>>
    /\ last = [op |-> "none", exc |-> "none", ret |-> None]
    /\ results = <<>>
    /\ job_queue = <<>>
    /\ stop_event = FALSE
    /\ worker = [running |-> FALSE, stopping |-> FALSE, thread |-> 0, threads |-> <<>>,
                 enqueued |-> 0, late |-> FALSE]
    /\ uploads = <<>>

WorkerStep == \E th \in DOMAIN worker.threads : ThreadStep(th)

NextWorker ==
    \/ StartWorker
    \/ EnqueuePipelineJob
    \/ WorkerStep
    \/ StopWorker
    \/ StopWorkerJoined

SpecWorker == InitWorker /\ [][NextWorker]_vars

\* Every thread that can take a step eventually takes one, and join returns.
SpecWorkerFair ==
    /\ SpecWorker
    /\ \A th \in 1..MaxStarts : WF_vars(th \in DOMAIN worker.threads /\ ThreadStep(th))
    /\ WF_vars(StopWorkerJoined)

\* C20: the jobs were taken in the order they were put on the queue, and
\* no job is taken while another is still being processed.
C20_FifoOneAtATime ==
    /\ \A i \in DOMAIN hist : hist[i].key = i
    /\ Cardinality(InJob) <= 1

\* A stop_worker call was made.
StopCalled == calls > worker.enqueued

\* The loop of the first thread has returned.
FirstLoopExited == worker.threads # <<>> /\ worker.threads[1].pc = "exited"

\* C21: no sample of a job is started after stop_worker was called while
\* an earlier sample of it was being processed, and once stop_worker was
\* called the loop of the thread it was called on eventually returns.
C21_StopEndsJobAndLoop ==
    /\ [](~worker.late)
    /\ (StopCalled ~> FirstLoopExited)

\* C22: when stop_worker has returned and no worker loop is left, the job
\* queue is empty.
C22_StopDrainsQueue ==
    (StopCalled /\ ~worker.running /\ ~worker.stopping /\ Alive = {}) => job_queue = <<>>

\* C29: at most one worker loop thread is alive at any time.
C29_AtMostOneLoopAlive == Cardinality(Alive) <= 1

(***************************************************************************)
(* Race specification: upload requests for one alliance in flight at the   *)
(* same time, each with its own session and one bear overview screenshot   *)
(* of trap 1.  A server process runs the endpoint's coroutines on one      *)
(* event loop, and process_screenshot never yields: requests of one        *)
(* process alternate between files only.  Requests of different processes  *)
(* alternate between statements; a statement sees what is committed.       *)
(***************************************************************************)
MaxRequests == 2

MaxProcesses == 2

\* Capture times within EVENT_GROUPING_WINDOW_HOURS of each other.
RaceTimes == {0, 23}

RaceData == [trap_id |-> 1, rally_count |-> 50, total_damage |-> None]

\* The event loop of request r's process is inside process_screenshot for
\* another request.
LoopBusy(r) ==
    \E q \in DOMAIN uploads :
        q # r /\ uploads[q].proc = uploads[r].proc /\ uploads[q].pc = "found"

\* find_or_create_bear_event on request r's session: the select.
UploadFind(r) ==
    /\ uploads[r].pc = "idle"
    /\ ~LoopBusy(r)
    /\ \E t \in RaceTimes :
       \E pick \in BearPicks(NewSession(db), 1, RaceData.trap_id, t) :
           uploads' = [uploads EXCEPT ![r] = [@ EXCEPT !.pc = "found", !.t = t,
                                                       !.pick = pick]]
    /\ UNCHANGED <<db, tx, new, dirty, inactive, calls, hist, last, results,
                   job_queue, stop_event, worker>>

\* find_or_create_bear_event on request r's session, after the select: the
\* event is updated or inserted, and save_bear_overview commits.
UploadInsert(r) ==
    /\ uploads[r].pc = "found"
    /\ \E out \in {ProcessBearOverview(NewSession(db), 1, RaceData, uploads[r].t,
                                       uploads[r].pick, r)} :
           /\ db' = out.w.db
           /\ tx' = out.w.db
    /\ uploads' = [uploads EXCEPT ![r].pc = "done"]
    /\ UNCHANGED <<new, dirty, inactive, calls, hist, last, results,
                   job_queue, stop_event, worker>>

InitRace ==
    /\ db = RosterDb
    /\ tx = RosterDb
    /\ new = EmptyTables
    /\ dirty = NoDirty
    /\ inactive = FALSE
    /\ calls = 0
    /\ hist = <<>>
    /\ last = [op |-> "none", exc |-> "none", ret |-> None]
    /\ results = <<>>
    /\ job_queue = <<>>
    /\ stop_event = FALSE
    /\ worker = [running |-> FALSE, stopping |-> FALSE, thread |-> 0, threads |-> <<>>,
                 enqueued |-> 0, late |-> FALSE]
    /\ uploads \in [1..MaxRequests ->
                       [pc : {"idle"}, proc : 1..MaxProcesses, t : {None}, pick : {None}]]

NextRace ==
    \/ \E r \in DOMAIN uploads : UploadFind(r)
    \/ \E r \in DOMAIN uploads : UploadInsert(r)

SpecRace == InitRace /\ [][NextRace]_vars

\* C23: upload requests in flight at the same time, whose observations of
\* trap 1 lie within the grouping window of each other, leave one BearEvent.
C23_ConcurrentUploadsOneEvent ==
    (\E r \in DOMAIN uploads : uploads[r].pc = "done")
        => Cardinality(BearEventsOf(1, RaceData.trap_id)) = 1

(***************************************************************************)
(* Failure specification: files whose extraction or persistence routine    *)
(* raises, by cause, and what process_screenshot makes of the exception.   *)
(***************************************************************************)
MaxFailureCalls == 3

\* pytesseract cannot be imported; the AI's reply is not JSON; the vision
\* request fails; Tesseract fails on the image; a flush violates a
\* constraint.
FailureCauses == {"missing_dependency", "validation", "vision_api", "ocr_engine", "persistence"}

\* The exception that leaves the file's routine.  _process_bear_overview
\* logs with extra={"filename": ...} before it raises ImportError (no
\* pytesseract) or ValueError (Tesseract failed); json.loads raises
\* ValueError; the AI client raises RuntimeError("OpenAI vision request
\* failed: ..."); a failed flush raises IntegrityError.
RoutineRaises(cause) ==
    CASE cause = "missing_dependency" ->
             IF LogWithFilename("error") # "none"
             THEN LogWithFilename("error") ELSE "ImportError"
      [] cause = "ocr_engine" ->
             IF LogWithFilename("error") # "none"
             THEN LogWithFilename("error") ELSE "ValueError"
      [] cause = "validation" -> "ValueError"
      [] cause = "vision_api" -> "RuntimeError"
      [] OTHER -> "IntegrityError"

\* The message process_screenshot's handler chooses for an exception:
\* except ImportError, except ValueError, except Exception with a look at
\* the exception's text ("API"/"openai", "database"/"sqlite").
FailureMessage(exc) ==
    CASE exc = "ImportError" -> "System error: Missing required component"
      [] exc = "ValueError" -> "Data extraction failed: screenshot may be cropped or unclear"
      [] exc = "RuntimeError" -> "OCR service temporarily unavailable"
      [] exc = "IntegrityError" -> "Database error"
      [] OTHER -> "Processing failed"

\* The except clauses of process_screenshot: each logs the exception with
\* extra={"filename": ...} and then sets the result's message.
HandleRoutineException(exc) ==
    IF LogWithFilename("error") # "none"
    THEN [exc |-> LogWithFilename("error"), result |-> None]
    ELSE [exc |-> "none",
          result |-> [success |-> FALSE, records_saved |-> 0,
                      message |-> FailureMessage(exc)]]

ProcessFailingFile ==
    /\ calls < MaxFailureCalls
    /\ \E cause \in FailureCauses :
       \E out \in {HandleRoutineException(RoutineRaises(cause))} :
           /\ last' = [op |-> "process_screenshot", exc |-> out.exc, ret |-> out.result]
           /\ hist' = Append(hist, [kind |-> "failure", key |-> cause])
    /\ calls' = calls + 1
    /\ UNCHANGED <<db, tx, new, dirty, inactive, results, wvars>>

InitFailure == InitOn(RosterDb)

NextFailure == ProcessFailingFile

SpecFailure == InitFailure /\ [][NextFailure]_vars

\* The messages a cause may be reported with.
MessagesFor(cause) ==
    CASE cause = "missing_dependency" -> {FailureMessage("ImportError")}
      [] cause = "validation" -> {FailureMessage("ValueError")}
      [] cause \in {"vision_api", "ocr_engine"} -> {FailureMessage("RuntimeError")}
      [] OTHER -> {FailureMessage("IntegrityError"), FailureMessage("KeyError")}

\* C24: the exception of the last file's routine was caught inside
\* process_screenshot and returned as a result with success=false whose
\* message is of the category of the cause: missing dependency, data
\* validation, or external service (vision API, OCR engine).
C24_FailureCaughtAndCategorised ==
    last.op = "process_screenshot" =>
        /\ last.exc = "none"
        /\ last.ret.success = FALSE
        /\ last.ret.message \in MessagesFor(hist[Len(hist)].key)

====
